---- MODULE Spec2Model ----
(***************************************************************************)
(* Broker API integration layer of alpha-ai: the KIS access-token manager  *)
(* (app/backend/kis/auth.py), the hashkey signer (app/backend/kis/         *)
(* hashkey.py) and the overseas order gateway (app/backend/kis/            *)
(* overseas_orders.py), as state machines whose steps are the code between *)
(* two suspension points (await) of the asyncio event loop.                *)
(*                                                                         *)
(* Time is in seconds.  A "string" the broker chooses (a token, a message) *)
(* is an abstract value; a token string is the serial number of the        *)
(* issuance that produced it, so two issuances never yield equal tokens.   *)
(***************************************************************************)
EXTENDS Integers, Sequences, FiniteSets, TLC

VARIABLES
    now,            \* datetime.now(timezone.utc), seconds
    file,           \* ~/.alpha-ai/cache/kis_token_<env>.json, per environment
    constructed,    \* which KISAuthService instances exist
    current_token,  \* KISAuthService._current_token
    token_lock,     \* KISAuthService._token_lock: its holder, or Free
    waiters,        \* KISAuthService._token_lock: its FIFO queue of waiters
    call,           \* per caller task: the call it is in and where it stands
    issued,         \* number of POST /oauth2/tokenP requests sent so far
    calls,          \* number of calls made so far
    last            \* who acted in the latest step: the caller whose
                    \* get_access_token returned a token, the manager that was
                    \* constructed, or Nobody

VARIABLES
    app_secret,     \* HashKeyService.app_secret
    signing         \* the latest call of the signer and how it ended

authVars == <<now, file, constructed, current_token, token_lock,
              waiters, call, issued, calls, last>>

VARIABLES
    order,          \* per caller task: the place_order call it is in
    orders          \* number of place_order calls made so far

signVars == <<app_secret, signing>>

orderVars == <<order, orders>>

VARIABLES
    websocket,            \* RealtimeClient._websocket: a socket, or None
    connected,            \* _connected
    running,              \* _running
    subscriptions,        \* _subscriptions
    subscription_lock,    \* _subscription_lock: the task holding it
    subscription_waiters, \* the tasks waiting for it, first come first served
    ping_task,            \* _ping_task: the heartbeat loop it refers to, or None
    last_ping_time,       \* _last_ping_time
    socket,               \* the sockets opened: state and what was sent on them
    receive_loop,         \* the receive loop started with each socket
    ping_loop,            \* the heartbeat loop started with each socket
    user,                 \* the tasks calling the client
    opened,               \* sockets opened so far
    feedcalls,            \* calls of the client's methods so far
    callbacks,            \* the callbacks invoked by the latest step
    received              \* the frame a receive loop got in the latest step

feedVars == <<websocket, connected, running, subscriptions, subscription_lock,
              subscription_waiters, ping_task, last_ping_time, socket,
              receive_loop, ping_loop, user, opened, feedcalls, callbacks,
              received>>

vars == <<authVars, signVars, orderVars, feedVars>>

\* What the token manager, the signer and the gateway leave alone
notAuth == <<signVars, orderVars, feedVars>>
notSign == <<authVars, orderVars, feedVars>>
notOrder == <<signVars, feedVars>>
notFeed == <<authVars, signVars, orderVars>>

----------------------------------------------------------------------------
(* Bounds of the model *)

MaxNow == 300       \* the clock stops here
TickStep == 300     \* one Tick of the clock
MaxCalls == 2       \* calls of get_access_token and revoke_token explored
MaxFields == 3      \* fields of a payload handed to the signer
MaxOrders == 1      \* calls of the order gateway explored
MaxRows == 2        \* rows of a balance reply
MaxSockets == 2     \* sockets the realtime client opens
MaxFeedCalls == 3   \* calls of the realtime client's methods explored

(* Program constants *)

BufferMinutes == 5
DefaultExpiresIn == 86400

Managers == {"m1"}

\* The managers of a host that runs several: m2 has another credential set
\* than m1 in the same environment, m3 is the live counterpart of m1
Instances == {"m1", "m2", "m3"}

\* The constructor arguments of each manager; the credential sets (app_key,
\* app_secret) are numbered
use_sandbox(m) == m # "m3"
app_key(m) == IF m = "m2" THEN 2 ELSE 1
Callers == {"c1", "c2"}
Envs == {"sandbox", "real"}
Free == "free"
Nobody == "nobody"

\* expires_in values the broker may report (seconds)
ExpiresInChoices == {300, 600}

----------------------------------------------------------------------------
(* AccessToken *)

NoToken == [kind |-> "none"]

AccessToken(access_token, token_type, expires_in, expires_at) ==
    [kind |-> "token", access_token |-> access_token, token_type |-> token_type,
     expires_in |-> expires_in, expires_at |-> expires_at]

is_expired(token, t) == t >= token.expires_at - BufferMinutes * 60

\* datetime.isoformat / datetime.fromisoformat
isoformat(t) == <<"iso", t>>

to_dict(token) ==
    [access_token |-> token.access_token, token_type |-> token.token_type,
     expires_in |-> token.expires_in, expires_at |-> isoformat(token.expires_at)]

\* from_dict raises (KeyError, a validation error) for a dict it cannot read
from_dict_ok(data) ==
    /\ {"access_token", "token_type", "expires_in", "expires_at"} \subseteq DOMAIN data
    /\ data.expires_at[1] = "iso"

from_dict(data) ==
    AccessToken(data.access_token, data.token_type, data.expires_in, data.expires_at[2])

----------------------------------------------------------------------------
(* The persisted cache: one file per environment *)

Absent == [kind |-> "absent"]
Garbage == [kind |-> "garbage"]             \* not JSON: json.load raises
Json(data) == [kind |-> "json", data |-> data]

env_suffix(sandbox) == IF sandbox THEN "sandbox" ELSE "real"

\* A token an earlier process persisted
Persisted(expires_at) == Json(to_dict(AccessToken(0, "Bearer", 86400, expires_at)))

\* An entry that lost its access_token key
Truncated == Json([token_type |-> "Bearer", expires_in |-> 86400,
                   expires_at |-> isoformat(600)])

InitialEntries == {Absent, Garbage, Truncated, Persisted(300), Persisted(600)}

----------------------------------------------------------------------------
(* Caller tasks *)

NoResult == [kind |-> "none"]
Raised(cls, msg) == [kind |-> "error", cls |-> cls, msg |-> msg]
Returned(value) == [kind |-> "bool", value |-> value]

\* A task that is in no call
Idle == [pc |-> "idle", op |-> "none", n |-> 0, m |-> "m1", force |-> FALSE,
         posts |-> 0, request |-> 0, result |-> NoResult, answer |-> "none",
         novalid |-> FALSE, overlap |-> {}, current |-> FALSE]

InFlight(c) == call[c].pc \in {"waiting", "posting", "revoking"}

Busy(m) == \E c \in Callers : InFlight(c) /\ call[c].m = m

HasValid(m) == /\ current_token[m].kind = "token"
               /\ ~is_expired(current_token[m], now)

----------------------------------------------------------------------------
(* The broker's answers *)

\* POST /oauth2/tokenP, the n-th request
TokenBodies(n) ==
    {[access_token |-> n, token_type |-> "Bearer"]}
    \cup {[access_token |-> n, token_type |-> "Bearer", expires_in |-> e] :
            e \in ExpiresInChoices}
    \cup {[token_type |-> "Bearer", expires_in |-> 600]}

ErrorBodies ==
    {[error_code |-> "EGW00133", error_description |-> "limit"],
     [error_code |-> "EGW00103", error_description |-> "invalid"],
     [html |-> "Bad Gateway"]}

TransportFailure == [kind |-> "transport"]
Http(status, body) == [kind |-> "http", status |-> status, body |-> body]

TokenResponses(n) ==
    {TransportFailure}
    \cup {Http(200, b) : b \in TokenBodies(n)}
    \cup {Http(s, b) : s \in {403, 500}, b \in ErrorBodies}

\* httpx.Response.raise_for_status
raises_for_status(response) == response.status >= 400

\* What a call's latest request was answered with, for the record
AnswerKind(response) ==
    IF response.kind = "transport" THEN "transport"
    ELSE IF raises_for_status(response)
         THEN IF "error_code" \in DOMAIN response.body
                 /\ response.body.error_code = "EGW00133"
              THEN "rate_limit" ELSE "http_error"
         ELSE IF "access_token" \in DOMAIN response.body
              THEN "token" ELSE "invalid"

----------------------------------------------------------------------------
(* KISAuthService.__init__ and _load_cached_token *)

\* The cache entry after _load_cached_token read `entry` at time t
load_keeps(entry, t) ==
    /\ entry.kind = "json"
    /\ from_dict_ok(entry.data)
    /\ ~is_expired(from_dict(entry.data), t)

\* The mutant of _load_cached_token: an expired entry is adopted too
load_cached_token_stale(entry, t) ==
    IF entry.kind = "json" /\ from_dict_ok(entry.data)
    THEN [token |-> from_dict(entry.data), entry |-> entry]
    ELSE [token |-> NoToken, entry |-> Absent]

load_cached_token(entry, t) ==
    IF entry.kind = "absent"
    THEN [token |-> NoToken, entry |-> entry]
    ELSE IF load_keeps(entry, t)
         THEN [token |-> from_dict(entry.data), entry |-> entry]
         ELSE [token |-> NoToken, entry |-> Absent]

Construct(m) ==
    /\ UNCHANGED notAuth
    /\ ~Busy(m)
    /\ LET env == env_suffix(use_sandbox(m))
           loaded == load_cached_token(file[env], now)
       IN /\ current_token' = [current_token EXCEPT ![m] = loaded.token]
          /\ file' = [file EXCEPT ![env] = loaded.entry]
    /\ constructed' = [constructed EXCEPT ![m] = TRUE]
    /\ token_lock' = [token_lock EXCEPT ![m] = Free]
    /\ waiters' = [waiters EXCEPT ![m] = <<>>]
    /\ last' = m
    /\ UNCHANGED <<now, call, issued, calls>>

----------------------------------------------------------------------------
(* KISAuthService.get_access_token *)

\* The mutant of must_wait: the lock is not taken
must_wait_never(m) == FALSE

\* asyncio.Lock.acquire suspends the caller
must_wait(m) == token_lock[m] # Free \/ waiters[m] # <<>>

\* Lines 175-177: the cached token is returned
uses_cached(m, force) == ~force /\ HasValid(m)

\* The other tasks' record of c starting a new call
Forget(c, others) ==
    [d \in Callers |-> IF d = c THEN call[d]
                       ELSE [call[d] EXCEPT !.overlap =
                               IF d \in others THEN @ \cup {c} ELSE @ \ {c}]]

\* The code from the lock's acquisition to the first suspension point, for
\* the call described by rec; tasks is the record of the tasks to update
Enter(c, rec, tasks) ==
    LET m == rec.m
    IN IF uses_cached(m, rec.force)
       THEN /\ call' = [tasks EXCEPT ![c] = [rec EXCEPT !.pc = "done",
                                               !.result = current_token[m]]]
            /\ token_lock' = token_lock
            /\ issued' = issued
            /\ last' = c
       ELSE /\ call' = [tasks EXCEPT ![c] = [rec EXCEPT !.pc = "posting",
                                               !.posts = @ + 1,
                                               !.request = issued + 1]]
            /\ token_lock' = [token_lock EXCEPT ![m] = c]
            /\ issued' = issued + 1
            /\ last' = Nobody

\* get_access_token(force_refresh=force) is called by task c: the code up to
\* its first suspension point
Begin(c, m, force, n) ==
    /\ call[c].pc \in {"idle", "done"}
    /\ constructed[m]
    /\ LET others == {d \in Callers \ {c} :
                        InFlight(d) /\ call[d].m = m /\ call[d].op = "get"}
           rec == [Idle EXCEPT !.op = "get", !.n = n, !.m = m,
                               !.force = force,
                               !.novalid = ~HasValid(m), !.overlap = others]
       IN IF must_wait(m)
          THEN /\ call' = [Forget(c, others) EXCEPT ![c] = [rec EXCEPT !.pc = "waiting"]]
               /\ waiters' = [waiters EXCEPT ![m] = Append(@, c)]
               /\ last' = Nobody
               /\ UNCHANGED <<token_lock, issued>>
          ELSE /\ Enter(c, rec, Forget(c, others))
               /\ UNCHANGED waiters
    /\ UNCHANGED <<now, file, constructed, current_token>>

\* A task calls get_access_token or ensure_token
GetAccessToken(c, m, force) ==
    /\ UNCHANGED notAuth
    /\ order[c].pc \in {"idle", "done"}
    /\ calls < MaxCalls
    /\ calls' = calls + 1
    /\ Begin(c, m, force, calls + 1)

\* The lock's release wakes its first waiter, which runs to its next
\* suspension point
Woken(c) ==
    /\ call[c].pc = "waiting"
    /\ LET m == call[c].m
       IN /\ token_lock[m] = Free
          /\ waiters[m] # <<>>
          /\ Head(waiters[m]) = c
          /\ waiters' = [waiters EXCEPT ![m] = Tail(@)]
          /\ Enter(c, call[c], call)
    /\ UNCHANGED <<now, file, constructed, current_token, calls>>

Wake(c) ==
    /\ UNCHANGED notAuth
    /\ order[c].pc # "token"
    /\ Woken(c)

\* _save_token_to_cache: the write may fail (the exception is swallowed)
SaveOutcomes == {"saved", "unwritable"}

\* The mutant of _save_token_to_cache: a failed write leaves no entry
save_token_to_cache_lossy(entry, token, outcome) ==
    IF outcome = "saved" THEN Json(to_dict(token)) ELSE Absent

\* Lines 148-158
save_token_to_cache(entry, token, outcome) ==
    IF outcome = "saved" THEN Json(to_dict(token)) ELSE entry

\* Lines 205-213: the AccessToken built from a valid response body
issue(data, t) ==
    LET expires_in == IF "expires_in" \in DOMAIN data
                      THEN data.expires_in ELSE DefaultExpiresIn
        token_type == IF "token_type" \in DOMAIN data
                      THEN data.token_type ELSE "Bearer"
    IN AccessToken(data.access_token, token_type, expires_in, t + expires_in)

\* The mutant of token_error: the rate-limit code is not singled out
token_error_plain(response) ==
    IF response.kind = "transport"
    THEN Raised("TransportError", "transport")
    ELSE IF raises_for_status(response)
         THEN Raised("HTTPStatusError", "status")
         ELSE Raised("ValueError", "Invalid token response")

\* Lines 226-250: what get_access_token raises for a failed request
token_error(response) ==
    IF response.kind = "transport"
    THEN Raised("TransportError", "transport")
    ELSE IF raises_for_status(response)
         THEN IF "error_code" \in DOMAIN response.body
                 /\ response.body.error_code = "EGW00133"
              THEN Raised("ValueError", "KIS API rate limit")
              ELSE Raised("HTTPStatusError", "status")
         ELSE Raised("ValueError", "Invalid token response")

\* The mutant of cached_after: a failed request empties the in-memory cache
cached_after_cleared(m, good, token) ==
    [current_token EXCEPT ![m] = IF good THEN token ELSE NoToken]

\* Line 216, and the handlers of lines 226-250, which assign nothing:
\* _current_token once the request is over
cached_after(m, good, token) ==
    IF good THEN [current_token EXCEPT ![m] = token] ELSE current_token

\* The request of get_access_token is answered (or fails); the lock is released
Answered(c, response, saving) ==
    /\ call[c].pc = "posting"
    /\ LET m == call[c].m
           env == env_suffix(use_sandbox(m))
           good == /\ response.kind = "http"
                   /\ ~raises_for_status(response)
                   /\ "access_token" \in DOMAIN response.body
           token == issue(response.body, now)
           rec == [call[c] EXCEPT !.pc = "done", !.answer = AnswerKind(response)]
       IN /\ token_lock' = [token_lock EXCEPT ![m] = Free]
          /\ current_token' = cached_after(m, good, token)
          /\ IF good
             THEN /\ file' = [file EXCEPT ![env] =
                                save_token_to_cache(@, token, saving)]
                  /\ call' = [call EXCEPT ![c] = [rec EXCEPT !.result = token]]
                  /\ last' = c
             ELSE /\ saving = "saved"
                  /\ call' = [call EXCEPT ![c] =
                                [rec EXCEPT !.result = token_error(response)]]
                  /\ last' = Nobody
                  /\ UNCHANGED file
    /\ UNCHANGED <<now, constructed, waiters, issued, calls>>

TokenAnswer(c, response, saving) ==
    /\ UNCHANGED notAuth
    /\ order[c].pc # "token"
    /\ Answered(c, response, saving)

----------------------------------------------------------------------------
(* KISAuthService.revoke_token *)

NoArgument == [given |-> FALSE]
Argument(token) == [given |-> TRUE, token |-> token]

\* Lines 272-277: the token string to revoke, or NoToken
revoke_target(m, arg) ==
    IF arg.given THEN [kind |-> "string", token |-> arg.token]
    ELSE IF current_token[m].kind = "token"
         THEN [kind |-> "string", token |-> current_token[m].access_token]
         ELSE NoToken

RevokeToken(c, m, arg) ==
    /\ UNCHANGED notAuth
    /\ order[c].pc \in {"idle", "done"}
    /\ call[c].pc \in {"idle", "done"}
    /\ constructed[m]
    /\ calls < MaxCalls
    /\ calls' = calls + 1
    /\ LET target == revoke_target(m, arg)
           rec == [Idle EXCEPT !.op = "revoke", !.n = calls + 1, !.m = m,
                               !.current = /\ target.kind = "string"
                                           /\ current_token[m].kind = "token"
                                           /\ target.token = current_token[m].access_token]
       IN call' = [Forget(c, {}) EXCEPT ![c] =
                     IF target.kind = "none"
                     THEN [rec EXCEPT !.pc = "done", !.result = Returned(FALSE)]
                     ELSE [rec EXCEPT !.pc = "revoking"]]
    /\ last' = Nobody
    /\ UNCHANGED <<now, file, constructed, current_token,
                   token_lock, waiters, issued>>

\* Lines 286-298
RevokeAnswer(c, response) ==
    /\ UNCHANGED notAuth
    /\ call[c].pc = "revoking"
    /\ LET m == call[c].m
           ok == response.kind = "http" /\ ~raises_for_status(response)
       IN /\ current_token' = [current_token EXCEPT ![m] =
                                 IF ok THEN NoToken ELSE @]
          /\ call' = [call EXCEPT ![c] =
                        [@ EXCEPT !.pc = "done", !.result = Returned(ok),
                                  !.answer = IF ok THEN "ok" ELSE "failed"]]
    /\ last' = Nobody
    /\ UNCHANGED <<now, file, constructed, token_lock, waiters,
                   issued, calls>>

RevokeResponses == {TransportFailure, Http(200, [code |-> 200]),
                    Http(500, [html |-> "Bad Gateway"])}

----------------------------------------------------------------------------
(* The clock *)

Tick ==
    /\ UNCHANGED notAuth
    /\ now + TickStep <= MaxNow
    /\ now' = now + TickStep
    /\ last' = Nobody
    /\ UNCHANGED <<file, constructed, current_token, token_lock,
                   waiters, call, issued, calls>>

----------------------------------------------------------------------------
(* The token manager and its callers *)

AuthInit ==
    /\ now = 0
    /\ \E entry \in InitialEntries :
          file = [env \in Envs |-> IF env = "sandbox" THEN entry ELSE Absent]
    /\ constructed = [m \in Instances |-> FALSE]
    /\ current_token = [m \in Instances |-> NoToken]
    /\ token_lock = [m \in Instances |-> Free]
    /\ waiters = [m \in Instances |-> <<>>]
    /\ call = [c \in Callers |-> Idle]
    /\ issued = 0
    /\ calls = 0
    /\ last = Nobody

AuthNext ==
    \/ \E m \in Managers : Construct(m)
    \/ \E c \in Callers, m \in Managers, force \in BOOLEAN : GetAccessToken(c, m, force)
    \/ \E c \in Callers : Wake(c)
    \/ \E c \in Callers, saving \in SaveOutcomes :
         \E response \in TokenResponses(call[c].request) :
            TokenAnswer(c, response, saving)
    \/ \E c \in Callers, m \in Managers :
         \E arg \in {NoArgument, Argument(0)} :
            RevokeToken(c, m, arg)
    \/ \E c \in Callers, response \in RevokeResponses : RevokeAnswer(c, response)
    \/ Tick

----------------------------------------------------------------------------
(* HashKeyService *)

Secrets == {"s1", "s2"}

FieldNames == {"CANO", "ACNT_PRDT_CD", "PDNO", "ORGN_ODNO"}

\* The values a field may carry: every value of a request body is a string
FieldValues(name) == IF name = "PDNO" THEN {"AAPL", "MSFT"} ELSE {"01"}

\* A payload is a dict: its items in insertion order, no key twice
IsDict(items) == \A i, j \in 1..Len(items) : items[i][1] = items[j][1] => i = j

RECURSIVE DictsOfLen(_)
DictsOfLen(k) ==
    IF k = 0 THEN {<<>>}
    ELSE {Append(d, <<name, value>>) :
            d \in DictsOfLen(k - 1),
            name \in FieldNames,
            value \in {"AAPL", "MSFT", "01"}}

Payloads ==
    {d \in UNION {DictsOfLen(k) : k \in 0..MaxFields} :
        /\ IsDict(d)
        /\ \A i \in 1..Len(d) : d[i][2] \in FieldValues(d[i][1])}

keys(data) == {data[i][1] : i \in 1..Len(data)}

\* json.dumps(data, separators=(',', ':'), ensure_ascii=False): the text, as
\* the sequence of its tokens; the items are written in insertion order
RECURSIVE dumps_items(_)
dumps_items(data) ==
    IF data = <<>> THEN <<>>
    ELSE LET item == <<"\"", data[1][1], "\"", ":", "\"", data[1][2], "\"">>
         IN IF Len(data) = 1 THEN item
            ELSE item \o <<",">> \o dumps_items(Tail(data))

json_dumps(data) == <<"{">> \o dumps_items(data) \o <<"}">>

\* hmac.new(key, msg, sha256).digest(): a MAC without collisions
hmac_sha256(key, msg) == <<"hmac", key, msg>>

b64encode(digest) == <<"b64", digest>>

\* The mutant of generate_hashkey: a counter is mixed into the signed text
generate_hashkey_salted(secret, data) ==
    b64encode(hmac_sha256(secret, json_dumps(data) \o <<signing.op>>))

\* Lines 48-65
generate_hashkey(secret, data) ==
    b64encode(hmac_sha256(secret, json_dumps(data)))

\* The mutant of required_fields: the symbol of an order is not required
required_fields_short(op) ==
    IF op = "order" THEN <<"CANO", "ACNT_PRDT_CD">>
    ELSE <<"CANO", "ACNT_PRDT_CD", "ORGN_ODNO">>

\* Lines 82, 105, 128
required_fields(op) ==
    IF op = "order" THEN <<"CANO", "ACNT_PRDT_CD", "PDNO">>
    ELSE <<"CANO", "ACNT_PRDT_CD", "ORGN_ODNO">>

\* The loop of lines 83-85: the first required field the payload lacks, or ""
RECURSIVE first_missing(_, _)
first_missing(fields, data) ==
    IF fields = <<>> THEN ""
    ELSE IF Head(fields) \notin keys(data) THEN Head(fields)
         ELSE first_missing(Tail(fields), data)

NoSigning == [op |-> "none", data |-> <<>>, secret |-> "s1",
              result |-> NoResult, hashed |-> FALSE, before |-> NoResult]

\* What the previous call returned, if it hashed this very payload under the
\* secret in use
Before(data) ==
    IF signing.hashed /\ signing.data = data /\ signing.secret = app_secret
    THEN signing.result ELSE NoResult

\* HashKeyService(app_secret=secret)
NewSigner(secret) ==
    /\ secret # app_secret
    /\ app_secret' = secret
    /\ signing' = NoSigning
    /\ UNCHANGED notSign

\* generate_hashkey called directly
GenerateHashkey(data) ==
    /\ signing' = [op |-> "hashkey", data |-> data, secret |-> app_secret,
                   result |-> [kind |-> "hashkey",
                               hashkey |-> generate_hashkey(app_secret, data)],
                   hashed |-> TRUE, before |-> Before(data)]
    /\ UNCHANGED app_secret
    /\ UNCHANGED notSign

\* sign_order, sign_cancel, sign_modify
Sign(op, data) ==
    /\ LET missing == first_missing(required_fields(op), data)
       IN signing' =
            IF missing # ""
            THEN [op |-> op, data |-> data, secret |-> app_secret,
                  result |-> Raised("ValueError",
                                    <<"Missing required field for", op, missing>>),
                  hashed |-> FALSE, before |-> NoResult]
            ELSE [op |-> op, data |-> data, secret |-> app_secret,
                  result |-> [kind |-> "hashkey",
                              hashkey |-> generate_hashkey(app_secret, data)],
                  hashed |-> TRUE, before |-> Before(data)]
    /\ UNCHANGED app_secret
    /\ UNCHANGED notSign

SignInit ==
    /\ app_secret = "s1"
    /\ signing = NoSigning

SignNext ==
    \/ \E secret \in Secrets : NewSigner(secret)
    \/ \E data \in Payloads : GenerateHashkey(data)
    \/ \E op \in {"order", "cancel", "modify"}, data \in Payloads : Sign(op, data)

----------------------------------------------------------------------------
(* OverseasOrderApi.place_order *)

\* stop_after_attempt(3)
stop_after_attempt == 3

None == -1

\* str(price) of the prices explored
str(price) == IF price = 150 THEN "150.0" ELSE "0.0"

\* Lines 159-168: the request body, a dict in insertion order
order_data(symbol, qty, price, order_type) ==
    << <<"CANO", "01">>, <<"ACNT_PRDT_CD", "01">>, <<"OVRS_EXCG_CD", "NASD">>,
       <<"PDNO", symbol>>, <<"ORD_QTY", qty>>,
       <<"OVRS_ORD_UNPR", IF price # None /\ price # 0 THEN str(price) ELSE "0">>,
       <<"ORD_SVR_DVSN_CD", "0">>, <<"ORD_DVSN", order_type>> >>

\* The mutant of tr_id: a sell order carries the live id in both modes
tr_id_live_sell(side, sandbox) ==
    IF side = "BUY"
    THEN IF sandbox THEN "VTTT1002U" ELSE "TTTT1002U"
    ELSE "TTTT1001U"

\* Lines 178-181
tr_id(side, sandbox) ==
    IF sandbox
    THEN IF side = "BUY" THEN "VTTT1002U" ELSE "VTTT1001U"
    ELSE IF side = "BUY" THEN "TTTT1002U" ELSE "TTTT1001U"

\* Lines 248-256: the request body of cancel_order
cancel_data(order_id, symbol, qty) ==
    << <<"CANO", "01">>, <<"ACNT_PRDT_CD", "01">>, <<"OVRS_EXCG_CD", "NASD">>,
       <<"PDNO", symbol>>, <<"ORGN_ODNO", order_id>>,
       <<"RVSE_CNCL_DVSN_CD", "02">>, <<"ORD_QTY", qty>> >>

\* Line 264
tr_id_cancel(sandbox) == IF sandbox THEN "VTTT1004U" ELSE "TTTT1004U"

NoRequest == [kind |-> "none"]

\* Lines 298-317: the request of get_positions
PositionsRequest(o, token) ==
    [kind |-> "request",
     authorization |-> <<token.token_type, token.access_token>>,
     tr_id |-> IF use_sandbox(o.m) THEN "VTTC8001R" ELSE "TTTC8001R",
     params |-> << <<"CANO", "01">>, <<"ACNT_PRDT_CD", "01">>,
                   <<"OVRS_EXCG_CD", "NASD">>, <<"TR_CRCY_CD", "USD">> >>]

\* Lines 171-181 and 193-197, lines 258-277: the request of one attempt
OrderRequest(o, token) ==
    LET data == IF o.op = "cancel"
                THEN cancel_data("0001", "AAPL", "1")
                ELSE order_data("AAPL", "1", o.price, o.order_type)
    IN IF o.op = "positions" THEN PositionsRequest(o, token) ELSE
       [kind |-> "request",
        authorization |-> <<token.token_type, token.access_token>>,
        hashkey |-> generate_hashkey(app_secret, data),
        tr_id |-> IF o.op = "cancel" THEN tr_id_cancel(use_sandbox(o.m))
                  ELSE tr_id(o.side, use_sandbox(o.m)),
        json |-> data]

\* The broker's answers to POST /uapi/overseas-stock/v1/trading/order
Messages == {"insufficient funds", "market closed", ""}

Accepted == [rt_cd |-> "0", msg_cd |-> "APBK0013", msg1 |-> "ok", odno |-> "0001"]
Rejected(msg1) == [rt_cd |-> "1", msg_cd |-> "APBK0919", msg1 |-> msg1]

OrderBodies ==
    {Accepted} \cup {Rejected(msg1) : msg1 \in Messages}
    \cup {[rt_cd |-> "1"], [html |-> "OK"]}

\* The request reached the broker, which carried it out, and the answer did
\* not come back (a read timeout, a connection reset while waiting)
LostResponse == [kind |-> "transport", lost |-> TRUE]

\* The broker carried out the request this answer is about
carried_out(response) ==
    \/ response = LostResponse
    \/ /\ response.kind = "http"
       /\ response.status = 200
       /\ "rt_cd" \in DOMAIN response.body
       /\ response.body.rt_cd = "0"

OrderResponses ==
    {TransportFailure, LostResponse}
    \cup {Http(200, b) : b \in OrderBodies}
    \cup {Http(s, b) : s \in {400, 500},
                       b \in {[html |-> "error"], Rejected("insufficient funds")}}

\* OrderResponse(**data) validates: rt_cd, msg_cd and msg1 are required
OrderResponse_ok(data) == {"rt_cd", "msg_cd", "msg1"} \subseteq DOMAIN data

OrderResponse(data) ==
    [kind |-> "order_response", rt_cd |-> data.rt_cd, msg_cd |-> data.msg_cd,
     msg1 |-> data.msg1,
     odno |-> IF "odno" \in DOMAIN data THEN data.odno ELSE "None"]

\* The mutant of is_success: every parsed reply counts as a success
is_success_http(r) == r.kind = "order_response"

is_success(r) == r.rt_cd = "0"

error_message(r) == IF ~is_success(r) THEN r.msg1 ELSE ""

\* The mutant of order_outcome: a rejection by the broker is raised
order_outcome_raising(response) ==
    IF response.kind = "transport"
    THEN Raised("TransportError", "transport")
    ELSE IF raises_for_status(response)
         THEN Raised("HTTPStatusError", "status")
         ELSE IF ~OrderResponse_ok(response.body)
              THEN Raised("ValidationError", "OrderResponse")
              ELSE IF response.body.rt_cd # "0"
                   THEN Raised("ValueError", response.body.msg1)
                   ELSE OrderResponse(response.body)

\* Lines 190-225: what one attempt returns or raises for the answer it got
order_outcome(response) ==
    IF response.kind = "transport"
    THEN Raised("TransportError", "transport")
    ELSE IF raises_for_status(response)
         THEN Raised("HTTPStatusError", "status")
         ELSE IF ~OrderResponse_ok(response.body)
              THEN Raised("ValidationError", "OrderResponse")
              ELSE OrderResponse(response.body)

\* How an attempt ended, for the record
AttemptKind(response) ==
    IF response.kind = "transport" THEN "transport"
    ELSE IF response.status >= 500 THEN "http_5xx"
    ELSE IF response.status >= 400 THEN "http_4xx"
    ELSE IF ~OrderResponse_ok(response.body) THEN "invalid"
    ELSE IF response.body.rt_cd = "0" THEN "accepted" ELSE "rejected"

Attempt(kind, msg1, request) == [kind |-> kind, msg1 |-> msg1, request |-> request]

\* A task that is in no call of the gateway
NoOrder == [pc |-> "idle", op |-> "place", m |-> "m1", side |-> "BUY",
            price |-> None, order_type |-> "00", attempt |-> 0,
            submitted |-> 0, request |-> NoRequest, history |-> <<>>,
            result |-> NoResult, accepted |-> 0, rows |-> <<>>]

\* Lines 128-131, the retry decorator without a retry predicate: an attempt
\* that raised, whatever it raised, is followed by a sleep and another
\* attempt, the third by RetryError; an attempt that returned ends the call
retry(o, outcome) ==
    IF outcome.kind # "error"
    THEN [o EXCEPT !.pc = "done", !.result = outcome]
    ELSE IF o.attempt >= stop_after_attempt
         THEN [o EXCEPT !.pc = "done",
                        !.result = Raised("RetryError", outcome.cls)]
         ELSE [o EXCEPT !.pc = "backoff"]

\* How a call goes on after an attempt ended with outcome: place_order is
\* wrapped by the retry decorator, cancel_order (lines 227-285) is not, what
\* it returns or raises is the call's result
settle(o, outcome) ==
    IF o.op = "place" THEN retry(o, outcome)
    ELSE [o EXCEPT !.pc = "done", !.result = outcome]

\* Lines 156-197, lines 245-277: the call after ensure_token returned or
\* raised in this step, if it did; call' is the token manager's record of
\* that call
Proceed(c, o) ==
    LET ensured == call'[c]
    IN IF ensured.pc # "done"
       THEN [o EXCEPT !.pc = "token"]
       ELSE IF ensured.result.kind = "token"
            THEN [o EXCEPT !.pc = "ordering", !.submitted = @ + 1,
                           !.request = OrderRequest(o, ensured.result)]
            ELSE settle([o EXCEPT !.history =
                           Append(@, Attempt("no_token", "", 0))],
                        ensured.result)

\* place_order is called: the first attempt begins
PlaceOrder(c, m, side, price, order_type) ==
    /\ UNCHANGED notOrder
    /\ order[c].pc \in {"idle", "done"}
    /\ orders < MaxOrders
    /\ orders' = orders + 1
    /\ UNCHANGED calls
    /\ Begin(c, m, FALSE, 0)
    /\ order' = [order EXCEPT ![c] =
                   Proceed(c, [NoOrder EXCEPT !.m = m, !.side = side,
                                              !.price = price,
                                              !.order_type = order_type,
                                              !.attempt = 1])]

\* cancel_order is called
CancelOrder(c, m) ==
    /\ UNCHANGED notOrder
    /\ order[c].pc \in {"idle", "done"}
    /\ orders < MaxOrders
    /\ orders' = orders + 1
    /\ UNCHANGED calls
    /\ Begin(c, m, FALSE, 0)
    /\ order' = [order EXCEPT ![c] =
                   Proceed(c, [NoOrder EXCEPT !.op = "cancel", !.m = m,
                                              !.attempt = 1])]

\* The sleep between two attempts is over: the next attempt begins
Retry(c) ==
    /\ UNCHANGED notOrder
    /\ order[c].pc = "backoff"
    /\ Begin(c, order[c].m, FALSE, 0)
    /\ order' = [order EXCEPT ![c] = Proceed(c, [@ EXCEPT !.attempt = @ + 1])]
    /\ UNCHANGED <<calls, orders>>

\* ensure_token of an attempt gets the lock it waited for
OrderWake(c) ==
    /\ UNCHANGED notOrder
    /\ order[c].pc = "token"
    /\ Woken(c)
    /\ order' = [order EXCEPT ![c] = Proceed(c, @)]
    /\ UNCHANGED orders

\* ensure_token of an attempt has its issuance request answered
OrderTokenAnswer(c, response, saving) ==
    /\ UNCHANGED notOrder
    /\ order[c].pc = "token"
    /\ Answered(c, response, saving)
    /\ order' = [order EXCEPT ![c] = Proceed(c, @)]
    /\ UNCHANGED orders

\* The order or cancel request of an attempt is answered (or fails)
OrderAnswer(c, response) ==
    /\ UNCHANGED notOrder
    /\ order[c].pc = "ordering"
    /\ order[c].op \in {"place", "cancel"}
    /\ LET o == order[c]
           msg1 == IF AttemptKind(response) = "rejected"
                   THEN response.body.msg1 ELSE ""
           tried == [o EXCEPT !.history =
                       Append(@, Attempt(AttemptKind(response), msg1, o.submitted)),
                              !.accepted =
                       IF carried_out(response) THEN @ + 1 ELSE @]
       IN order' = [order EXCEPT ![c] = settle(tried, order_outcome(response))]
    /\ last' = Nobody
    /\ UNCHANGED <<now, file, constructed, current_token, token_lock,
                   waiters, call, issued, calls, orders>>

----------------------------------------------------------------------------
(* OverseasOrderApi.get_positions *)

\* int(text) and Decimal(text) of the texts explored: the others raise
int_ok(text) == text \in {"0", "10"}
int(text) == IF text = "10" THEN 10 ELSE 0
Decimal_ok(text) == text \in {"1.5"}

\* The fields of a row other than the quantity that Position(...) reads;
\* pchs_avg_pric stands for the five Decimal fields
RowKeys == {"ovrs_pdno", "ovrs_item_name", "pchs_avg_pric"}

\* A row of output1 as the broker may send it
Row(symbol, qty) == [ovrs_pdno |-> symbol, ovrs_item_name |-> "name",
                     ovrs_cblc_qty |-> qty, pchs_avg_pric |-> "1.5"]

BalanceRows ==
    {Row("AAPL", "10"), Row("MSFT", "10"), Row("TSLA", "0"),
     [Row("AAPL", "10") EXCEPT !.pchs_avg_pric = "n/a"],
     [Row("AAPL", "abc") EXCEPT !.ovrs_pdno = "NVDA"],
     [ovrs_pdno |-> "AMZN", ovrs_cblc_qty |-> "10", pchs_avg_pric |-> "1.5"],
     [ovrs_pdno |-> "META", ovrs_cblc_qty |-> "0"],
     [ovrs_pdno |-> "GOOG", ovrs_item_name |-> "name", pchs_avg_pric |-> "1.5"]}

RECURSIVE RowsOfLen(_)
RowsOfLen(k) ==
    IF k = 0 THEN {<<>>}
    ELSE {Append(rows, row) : rows \in RowsOfLen(k - 1), row \in BalanceRows}

BalanceBodies ==
    {[output1 |-> rows] : rows \in UNION {RowsOfLen(k) : k \in 0..MaxRows}}
    \cup {[rt_cd |-> "1", msg1 |-> "error"]}

PositionResponses ==
    {TransportFailure, Http(500, [html |-> "error"])}
    \cup {Http(200, b) : b \in BalanceBodies}

\* Line 326: int(item.get("ovrs_cblc_qty", 0)), which may raise
quantity_text(item) ==
    IF "ovrs_cblc_qty" \in DOMAIN item THEN item.ovrs_cblc_qty ELSE "0"

\* Lines 327-336: Position(...) of a row, or what building it raises
Position(item) ==
    IF ~(RowKeys \subseteq DOMAIN item)
    THEN Raised("KeyError", "row")
    ELSE IF ~Decimal_ok(item.pchs_avg_pric)
         THEN Raised("InvalidOperation", "row")
         ELSE [kind |-> "position", symbol |-> item.ovrs_pdno,
               name |-> item.ovrs_item_name,
               quantity |-> int(item.ovrs_cblc_qty),
               avg_price |-> item.pchs_avg_pric]

\* Lines 323-337: the loop over the rows; the first row that raises ends it
RECURSIVE parse_rows(_, _)
parse_rows(rows, positions) ==
    IF rows = <<>> THEN [kind |-> "positions", list |-> positions]
    ELSE LET item == Head(rows)
         IN IF ~int_ok(quantity_text(item))
            THEN Raised("ValueError", "row")
            ELSE IF int(quantity_text(item)) > 0
                 THEN IF Position(item).kind = "error"
                      THEN Position(item)
                      ELSE parse_rows(Tail(rows), Append(positions, Position(item)))
                 ELSE parse_rows(Tail(rows), positions)

\* Lines 311-344: what get_positions returns or raises for the answer it got
positions_outcome(response) ==
    IF response.kind = "transport"
    THEN Raised("TransportError", "transport")
    ELSE IF raises_for_status(response)
         THEN Raised("HTTPStatusError", "status")
         ELSE IF "output1" \in DOMAIN response.body
              THEN parse_rows(response.body.output1, <<>>)
              ELSE [kind |-> "positions", list |-> <<>>]

\* get_positions is called
GetPositions(c, m) ==
    /\ UNCHANGED notOrder
    /\ order[c].pc \in {"idle", "done"}
    /\ orders < MaxOrders
    /\ orders' = orders + 1
    /\ UNCHANGED calls
    /\ Begin(c, m, FALSE, 0)
    /\ order' = [order EXCEPT ![c] =
                   Proceed(c, [NoOrder EXCEPT !.op = "positions", !.m = m,
                                              !.attempt = 1])]

\* The balance inquiry is answered (or fails)
PositionsAnswer(c, response) ==
    /\ UNCHANGED notOrder
    /\ order[c].pc = "ordering"
    /\ order[c].op = "positions"
    /\ LET o == order[c]
           got == [o EXCEPT !.rows =
                     IF response.kind = "http" /\ ~raises_for_status(response)
                        /\ "output1" \in DOMAIN response.body
                     THEN response.body.output1 ELSE <<>>,
                            !.history =
                     Append(@, Attempt(IF response.kind = "transport"
                                       THEN "transport"
                                       ELSE IF response.status >= 400
                                            THEN "http_5xx" ELSE "answered",
                                       "", o.submitted))]
       IN order' = [order EXCEPT ![c] = settle(got, positions_outcome(response))]
    /\ last' = Nobody
    /\ UNCHANGED <<now, file, constructed, current_token, token_lock,
                   waiters, call, issued, calls, orders>>

OrderInit ==
    /\ order = [c \in Callers |-> NoOrder]
    /\ orders = 0

\* The tasks that place orders; the others use the token manager directly
OrderTasks == {"c1"}

\* The orders placed
OrderArgs == {<<"BUY", 150, "00">>, <<"SELL", None, "01">>, <<"BUY", 150, "01">>}

\* The answers to the issuance requests made while orders are placed
GatewayTokenResponses(n) ==
    {TransportFailure,
     Http(200, [access_token |-> n, token_type |-> "Bearer"]),
     Http(403, [error_code |-> "EGW00133", error_description |-> "limit"])}

OrderNext ==
    \/ \E m \in Managers : Construct(m)
    \/ \E c \in Callers \ OrderTasks, m \in Managers : GetAccessToken(c, m, FALSE)
    \/ \E c \in Callers : Wake(c)
    \/ \E c \in Callers :
         \E response \in GatewayTokenResponses(call[c].request) :
            TokenAnswer(c, response, "saved")
    \/ \E c \in OrderTasks, m \in Managers, args \in OrderArgs :
            PlaceOrder(c, m, args[1], args[2], args[3])
    \/ \E c \in OrderTasks, m \in Managers : CancelOrder(c, m)
    \/ \E c \in Callers : Retry(c)
    \/ \E c \in Callers : OrderWake(c)
    \/ \E c \in Callers :
         \E response \in GatewayTokenResponses(call[c].request) :
            OrderTokenAnswer(c, response, "saved")
    \/ \E c \in Callers, response \in OrderResponses : OrderAnswer(c, response)

\* The inquiries of the gateway
QueryNext ==
    \/ \E m \in Managers : Construct(m)
    \/ \E c \in OrderTasks, m \in Managers : GetPositions(c, m)
    \/ \E c \in Callers :
         \E response \in GatewayTokenResponses(call[c].request) :
            OrderTokenAnswer(c, response, "saved")
    \/ \E c \in Callers, response \in PositionResponses :
            PositionsAnswer(c, response)

----------------------------------------------------------------------------
(* RealtimeClient: one client, the sockets it opens, its background loops   *)
(* and the tasks that call it.  The tasks asyncio.create_task starts are    *)
(* taken to have reached their first await when connect() returns.  The     *)
(* token manager is represented in connect() by the outcome of ensure_token.*)

\* max_retries = 5
max_retries == 5

Users == {"u1"}
Sockets == 1..MaxSockets
Symbols == {"AAPL"}

\* data_types = ["H0STCNT0", "H0STCNI0"] when None is passed
DefaultDataTypes == <<"H0STCNT0", "H0STCNI0">>
DataTypeLists == {DefaultDataTypes, <<"H0STCNI0">>}

\* f"{data_type}:{symbol}" and subscription.split(":")
subscription_key(data_type, symbol) == <<data_type, ":", symbol>>
split(subscription) == <<subscription[1], subscription[3]>>

\* The tasks that take the subscription lock
User(u) == [user |-> u]
Loop(s) == [loop |-> s]
Unlocked == [free |-> TRUE]

\* The callbacks
OnError(msg) == [callback |-> "on_error", arg |-> msg]
OnData(data_type, symbol) == [callback |-> "on_data", arg |-> <<data_type, symbol>>]
TerminalMessage == "Connection lost and unable to reconnect"

NoSocket == [state |-> "none", log |-> <<>>, replay |-> {}]
NoLoop == [pc |-> "none", on |-> None, attempt |-> 0, todo |-> <<>>]
\* A heartbeat loop's record: on is the socket _websocket referred to when the
\* loop started or sent its latest ping
NoPing == [pc |-> "none", on |-> None]
\* A calling task's record; connected is the value _connected had when the
\* task called disconnect(), and reconnecting tells whether a reconnect
\* procedure was under way then; changed tells whether the subscribe or
\* unsubscribe call in progress has changed the subscription set
NoUser == [pc |-> "idle", op |-> "none", symbol |-> "AAPL", types |-> <<>>,
           i |-> 0, on |-> None, connected |-> FALSE, reconnecting |-> FALSE,
           changed |-> FALSE, result |-> NoResult]

\* No frame was received
NoFrame == [json |-> "none"]

\* The process spins in a receive loop that never awaits
Hung == \E s \in Sockets : receive_loop[s].pc = "spin"

\* The message of a subscribe (tr_type "1") or unsubscribe (tr_type "2")
Control(type, key, by) == [tr_type |-> type, key |-> key, by |-> by]

\* websocket.send(...) on socket s raises at once: no socket, or not open
send_raises(s) == s = None \/ socket[s].state # "open"

\* asyncio.Lock.acquire suspends the caller
must_queue == subscription_lock # Unlocked \/ subscription_waiters # <<>>

\* The orders in which list(self._subscriptions) may enumerate a set
RECURSIVE Orderings(_)
Orderings(S) ==
    IF S = {} THEN {<<>>}
    ELSE UNION {{<<k>> \o rest : rest \in Orderings(S \ {k})} : k \in S}

----------------------------------------------------------------------------
(* connect *)

\* Lines 123-133: connect() after the handshake succeeded, socket s is new;
\* loops and pings are the loops' records to update
Establish(s, replay, loops, pings) ==
    /\ websocket' = s
    /\ connected' = TRUE
    /\ running' = TRUE
    /\ socket' = [socket EXCEPT ![s] = [NoSocket EXCEPT !.state = "open",
                                                         !.replay = replay]]
    /\ receive_loop' = [loops EXCEPT ![s] = [NoLoop EXCEPT !.pc = "recv", !.on = s]]
    /\ ping_loop' = [pings EXCEPT ![s] = [NoPing EXCEPT !.pc = "sleep", !.on = s]]
    /\ ping_task' = s
    /\ opened' = s

\* A receive loop is "failed" from the moment its reconnect procedure gave up
\* until a task calls connect() or returns from it, and "ended" after that
acknowledged(loops) ==
    [l \in Sockets |-> IF loops[l].pc = "failed"
                       THEN [loops[l] EXCEPT !.pc = "ended"] ELSE loops[l]]

\* A task calls connect(): lines 107-121, up to the handshake
Connect(u) ==
    /\ UNCHANGED notFeed
    /\ ~Hung
    /\ received' = NoFrame
    /\ user[u].pc \in {"idle", "done"}
    /\ feedcalls < MaxFeedCalls
    /\ feedcalls' = feedcalls + 1
    /\ user' = [user EXCEPT ![u] = [NoUser EXCEPT !.pc = "connecting",
                                                  !.op = "connect"]]
    /\ receive_loop' = acknowledged(receive_loop)
    /\ callbacks' = <<>>
    /\ UNCHANGED <<websocket, connected, running, subscriptions,
                   subscription_lock, subscription_waiters, ping_task,
                   last_ping_time, socket, ping_loop, opened>>

\* ensure_token and the handshake of a task's connect() are over
ConnectAnswer(u, ok) ==
    /\ UNCHANGED notFeed
    /\ ~Hung
    /\ received' = NoFrame
    /\ user[u].pc = "connecting"
    /\ callbacks' = <<>>
    /\ IF ok
       THEN /\ opened < MaxSockets
            /\ Establish(opened + 1, {}, acknowledged(receive_loop), ping_loop)
            /\ user' = [user EXCEPT ![u] = [@ EXCEPT !.pc = "done",
                                                     !.result = Returned(TRUE)]]
       ELSE /\ connected' = FALSE
            /\ receive_loop' = acknowledged(receive_loop)
            /\ user' = [user EXCEPT ![u] = [@ EXCEPT !.pc = "done",
                                                     !.result = Returned(FALSE)]]
            /\ UNCHANGED <<websocket, running, socket, ping_loop, ping_task,
                           opened>>
    /\ UNCHANGED <<subscriptions, subscription_lock, subscription_waiters,
                   last_ping_time, feedcalls>>

----------------------------------------------------------------------------
(* disconnect *)

\* A receive loop is in _handle_reconnect, between two attempts: lines 412-415
Reconnecting == \E l \in Sockets : receive_loop[l].pc = "sleep"

\* Line 146: the task _ping_task refers to is cancelled
cancel_ping(pings) ==
    IF ping_task # None /\ pings[ping_task].pc = "sleep"
    THEN [pings EXCEPT ![ping_task] = [@ EXCEPT !.pc = "cancelled"]]
    ELSE pings

\* A task calls disconnect(): lines 142-154, or all of it without a socket
Disconnect(u) ==
    /\ UNCHANGED notFeed
    /\ ~Hung
    /\ received' = NoFrame
    /\ user[u].pc \in {"idle", "done"}
    /\ feedcalls < MaxFeedCalls
    /\ feedcalls' = feedcalls + 1
    /\ running' = FALSE
    /\ ping_loop' = cancel_ping(ping_loop)
    /\ callbacks' = <<>>
    /\ IF websocket # None
       THEN /\ user' = [user EXCEPT ![u] = [NoUser EXCEPT !.pc = "closing",
                                                         !.op = "disconnect",
                                                         !.on = websocket,
                                                         !.connected = connected,
                                                         !.reconnecting = Reconnecting]]
            /\ socket' = [socket EXCEPT ![websocket] =
                            [@ EXCEPT !.state = IF @ = "open" THEN "closing" ELSE @]]
            /\ UNCHANGED <<connected, subscriptions>>
       ELSE /\ user' = [user EXCEPT ![u] = [NoUser EXCEPT !.pc = "done",
                                                         !.op = "disconnect",
                                                         !.reconnecting = Reconnecting]]
            /\ connected' = FALSE
            /\ subscriptions' = {}
            /\ UNCHANGED socket
    /\ UNCHANGED <<websocket, subscription_lock, subscription_waiters,
                   ping_task, last_ping_time, receive_loop, opened>>

\* Lines 154-160: close() returned
DisconnectEnd(u) ==
    /\ UNCHANGED notFeed
    /\ ~Hung
    /\ received' = NoFrame
    /\ user[u].pc = "closing"
    /\ socket[user[u].on].state = "closed"
    /\ websocket' = None
    /\ connected' = FALSE
    /\ subscriptions' = {}
    /\ user' = [user EXCEPT ![u] = [NoUser EXCEPT !.pc = "done",
                                                  !.op = "disconnect",
                                                  !.reconnecting = user[u].reconnecting]]
    /\ callbacks' = <<>>
    /\ UNCHANGED <<running, subscription_lock, subscription_waiters, ping_task,
                   last_ping_time, socket, receive_loop, ping_loop, opened,
                   feedcalls>>

----------------------------------------------------------------------------
(* The receive loop and the reconnect procedure *)

\* Lines 293-297 and 403-413: the receive loop's recv() raised
\* ConnectionClosed; _connected is False by then
closure_seen(loop) ==
    IF running THEN [loop EXCEPT !.pc = "sleep", !.attempt = 0, !.on = None]
    ELSE [loop EXCEPT !.pc = "ended", !.on = None]

\* Socket s closes, by the network or at the end of the closing handshake; the
\* receive loop that waits on it sees ConnectionClosed
SocketCloses(s) ==
    /\ UNCHANGED notFeed
    /\ ~Hung
    /\ received' = NoFrame
    /\ socket[s].state \in {"open", "closing"}
    /\ socket' = [socket EXCEPT ![s] = [@ EXCEPT !.state = "closed"]]
    /\ LET waiting == {l \in Sockets : receive_loop[l].pc = "recv"
                                       /\ receive_loop[l].on = s}
       IN /\ receive_loop' = [l \in Sockets |->
                                IF l \in waiting THEN closure_seen(receive_loop[l])
                                ELSE receive_loop[l]]
          /\ connected' = IF waiting # {} THEN FALSE ELSE connected
    /\ callbacks' = <<>>
    /\ UNCHANGED <<websocket, running, subscriptions, subscription_lock,
                   subscription_waiters, ping_task, last_ping_time, ping_loop,
                   user, opened, feedcalls>>

\* The subscribe calls of the replay (lines 417-419), from the one for
\* Head(todo) to the first that suspends, given the flag, the socket and the
\* lock as they are when it runs: a call returns False at once when the
\* client is not connected or send raises at once, and waits when the lock
\* is held or has waiters
replay_on(l, todo, conn, ws, sockets, holder, queue) ==
    IF todo = <<>> \/ ~conn
    THEN [pc |-> "ended", todo |-> <<>>, on |-> None,
          holder |-> holder, queue |-> queue]
    ELSE IF holder # Unlocked \/ queue # <<>>
         THEN [pc |-> "lockwait", todo |-> todo, on |-> None,
               holder |-> holder, queue |-> Append(queue, Loop(l))]
         ELSE IF ws = None \/ sockets[ws].state # "open"
              THEN [pc |-> "ended", todo |-> <<>>, on |-> None,
                    holder |-> holder, queue |-> queue]
              ELSE [pc |-> "sending", todo |-> todo, on |-> ws,
                    holder |-> Loop(l), queue |-> queue]

\* One attempt of the reconnect procedure: the sleep of line 413 is over and
\* the connect() of line 415 has returned; lines 415-426
ReconnectAnswer(l, ok, todo) ==
    /\ UNCHANGED notFeed
    /\ ~Hung
    /\ received' = NoFrame
    /\ receive_loop[l].pc = "sleep"
    /\ IF ok
       THEN /\ opened < MaxSockets
            /\ todo \in Orderings(subscriptions)
            /\ LET next == replay_on(l, todo, TRUE, opened + 1,
                                     [socket EXCEPT ![opened + 1] =
                                        [NoSocket EXCEPT !.state = "open"]],
                                     subscription_lock, subscription_waiters)
               IN /\ Establish(opened + 1, subscriptions,
                               [receive_loop EXCEPT ![l] =
                                  [@ EXCEPT !.pc = next.pc, !.todo = next.todo,
                                            !.on = next.on]],
                               ping_loop)
                  /\ subscription_lock' = next.holder
                  /\ subscription_waiters' = next.queue
            /\ callbacks' = <<>>
       ELSE /\ todo = <<>>
            /\ connected' = FALSE
            /\ LET attempt == receive_loop[l].attempt + 1
               IN IF attempt >= max_retries
                  THEN /\ receive_loop' = [receive_loop EXCEPT ![l] =
                                             [@ EXCEPT !.pc = "failed",
                                                       !.attempt = attempt]]
                       /\ callbacks' = <<OnError(TerminalMessage)>>
                  ELSE /\ receive_loop' = [receive_loop EXCEPT ![l] =
                                             [@ EXCEPT !.pc = "sleep",
                                                       !.attempt = attempt]]
                       /\ callbacks' = <<>>
            /\ UNCHANGED <<websocket, running, socket, ping_loop, ping_task,
                           opened, subscription_lock, subscription_waiters>>
    /\ UNCHANGED <<subscriptions, last_ping_time, user, feedcalls>>

----------------------------------------------------------------------------
(* subscribe and unsubscribe *)

tr_type(op) == IF op = "subscribe" THEN "1" ELSE "2"

\* Lines 204 and 255
updated(subs, op, key) == IF op = "subscribe" THEN subs \cup {key} ELSE subs \ {key}

\* subscribe and unsubscribe without their first test
guard_removed == FALSE

\* Lines 173-175 and 225-226
not_connected == ~connected

\* The call of a task returns value; its record keeps the operation, and the
\* arguments of an unsubscribe that returned True
returns(rec, value) ==
    IF rec.op = "unsubscribe" /\ value
    THEN [NoUser EXCEPT !.pc = "done", !.op = rec.op, !.symbol = rec.symbol,
                        !.types = rec.types, !.result = Returned(value)]
    ELSE [NoUser EXCEPT !.pc = "done", !.op = rec.op, !.result = Returned(value)]

\* A task holding the lock reaches the send of its i-th data type (lines 200
\* and 251); the except clause returns False and the lock is released
send_next(rec, i) ==
    IF send_raises(websocket)
    THEN returns(rec, FALSE)
    ELSE [rec EXCEPT !.pc = "sending", !.i = i, !.on = websocket]

holder_after(rec, task) == IF rec.pc = "sending" THEN task ELSE Unlocked

\* A task calls subscribe or unsubscribe: lines 173-200 and 225-251
Subscribe(u, op, symbol, types) ==
    /\ UNCHANGED notFeed
    /\ ~Hung
    /\ received' = NoFrame
    /\ user[u].pc \in {"idle", "done"}
    /\ feedcalls < MaxFeedCalls
    /\ feedcalls' = feedcalls + 1
    /\ callbacks' = <<>>
    /\ LET rec == [NoUser EXCEPT !.op = op, !.symbol = symbol, !.types = types]
       IN IF not_connected
          THEN /\ user' = [user EXCEPT ![u] = returns(rec, FALSE)]
               /\ UNCHANGED <<subscription_lock, subscription_waiters>>
          ELSE IF must_queue
               THEN /\ user' = [user EXCEPT ![u] = [rec EXCEPT !.pc = "lockwait"]]
                    /\ subscription_waiters' = Append(subscription_waiters, User(u))
                    /\ UNCHANGED subscription_lock
               ELSE /\ user' = [user EXCEPT ![u] = send_next(rec, 1)]
                    /\ subscription_lock' = holder_after(user'[u], User(u))
                    /\ UNCHANGED subscription_waiters
    /\ UNCHANGED <<websocket, connected, running, subscriptions, ping_task,
                   last_ping_time, socket, receive_loop, ping_loop, opened>>

\* The lock is free and the task at the head of its queue takes it
UserWake(u) ==
    /\ UNCHANGED notFeed
    /\ ~Hung
    /\ received' = NoFrame
    /\ user[u].pc = "lockwait"
    /\ subscription_lock = Unlocked
    /\ subscription_waiters # <<>>
    /\ Head(subscription_waiters) = User(u)
    /\ subscription_waiters' = Tail(subscription_waiters)
    /\ user' = [user EXCEPT ![u] = send_next(@, 1)]
    /\ subscription_lock' = holder_after(user'[u], User(u))
    /\ callbacks' = <<>>
    /\ UNCHANGED <<websocket, connected, running, subscriptions, ping_task,
                   last_ping_time, socket, receive_loop, ping_loop, opened,
                   feedcalls>>

\* The send of a task's subscribe or unsubscribe is over: lines 200-212
UserSent(u) ==
    /\ UNCHANGED notFeed
    /\ ~Hung
    /\ received' = NoFrame
    /\ user[u].pc = "sending"
    /\ callbacks' = <<>>
    /\ LET rec == user[u]
           s == rec.on
           key == subscription_key(rec.types[rec.i], rec.symbol)
       IN IF socket[s].state = "open"
          THEN /\ socket' = [socket EXCEPT ![s] =
                               [@ EXCEPT !.log = Append(@, Control(tr_type(rec.op),
                                                                   key, User(u)))]]
               /\ subscriptions' = updated(subscriptions, rec.op, key)
               /\ user' = [user EXCEPT ![u] =
                             IF rec.i < Len(rec.types)
                             THEN send_next([rec EXCEPT !.changed =
                                               @ \/ subscriptions' # subscriptions],
                                            rec.i + 1)
                             ELSE returns(rec, TRUE)]
          ELSE /\ user' = [user EXCEPT ![u] = returns(rec, FALSE)]
               /\ UNCHANGED <<socket, subscriptions>>
    /\ subscription_lock' = holder_after(user'[u], User(u))
    /\ UNCHANGED <<websocket, connected, running, subscription_waiters,
                   ping_task, last_ping_time, receive_loop, ping_loop, opened,
                   feedcalls>>

----------------------------------------------------------------------------
(* The replay of the subscriptions after a reconnect *)

\* The replay's subscribe call got the lock it waited for
ReplayWake(l) ==
    /\ UNCHANGED notFeed
    /\ ~Hung
    /\ received' = NoFrame
    /\ receive_loop[l].pc = "lockwait"
    /\ subscription_lock = Unlocked
    /\ subscription_waiters # <<>>
    /\ Head(subscription_waiters) = Loop(l)
    /\ LET rec == receive_loop[l]
           next == IF send_raises(websocket)
                   THEN replay_on(l, Tail(rec.todo), connected, websocket, socket,
                                  Unlocked, Tail(subscription_waiters))
                   ELSE [pc |-> "sending", todo |-> rec.todo, on |-> websocket,
                         holder |-> Loop(l),
                         queue |-> Tail(subscription_waiters)]
       IN /\ receive_loop' = [receive_loop EXCEPT ![l] =
                                [@ EXCEPT !.pc = next.pc, !.todo = next.todo,
                                          !.on = next.on]]
          /\ subscription_lock' = next.holder
          /\ subscription_waiters' = next.queue
    /\ callbacks' = <<>>
    /\ UNCHANGED <<websocket, connected, running, subscriptions, ping_task,
                   last_ping_time, socket, ping_loop, user, opened, feedcalls>>

\* The send of the replay's subscribe call is over; the call releases the
\* lock and the replay goes on to the next subscription
ReplaySent(l) ==
    /\ UNCHANGED notFeed
    /\ ~Hung
    /\ received' = NoFrame
    /\ receive_loop[l].pc = "sending"
    /\ LET rec == receive_loop[l]
           s == rec.on
           key == Head(rec.todo)
           parts == split(key)
           sent == socket[s].state = "open"
           next == replay_on(l, Tail(rec.todo), connected, websocket, socket,
                             Unlocked, subscription_waiters)
       IN /\ socket' = IF sent
                       THEN [socket EXCEPT ![s] =
                               [@ EXCEPT !.log = Append(@, Control("1",
                                   subscription_key(parts[1], parts[2]), Loop(l)))]]
                       ELSE socket
          /\ subscriptions' = IF sent
                              THEN subscriptions
                                     \cup {subscription_key(parts[1], parts[2])}
                              ELSE subscriptions
          /\ receive_loop' = [receive_loop EXCEPT ![l] =
                                [@ EXCEPT !.pc = next.pc, !.todo = next.todo,
                                          !.on = next.on]]
          /\ subscription_lock' = next.holder
          /\ subscription_waiters' = next.queue
    /\ callbacks' = <<>>
    /\ UNCHANGED <<websocket, connected, running, ping_task, last_ping_time,
                   ping_loop, user, opened, feedcalls>>

----------------------------------------------------------------------------
(* Frames *)

Absent_field == "absent"

\* What the server may send: text that is not JSON, JSON that is not an
\* object, and objects by their header's tr_id, rsp_cd and rsp_msg
Frame(json, id, rsp_cd, rsp_msg, output) ==
    [json |-> json, tr_id |-> id, rsp_cd |-> rsp_cd, rsp_msg |-> rsp_msg,
     output |-> output]

Frames ==
    { Frame("undecodable", Absent_field, Absent_field, Absent_field, "none"),
      Frame("value", Absent_field, Absent_field, Absent_field, "none"),
      Frame("object", "PINGPONG", Absent_field, Absent_field, "none"),
      Frame("object", "H0STCNT0", "0000", Absent_field, "quote"),
      Frame("object", "H0STCNI0", "0000", Absent_field, "malformed"),
      Frame("object", "H0STCNT0", Absent_field, Absent_field, "quote"),
      Frame("object", "UNKNOWN", "0000", Absent_field, "none"),
      Frame("object", "UNKNOWN", Absent_field, Absent_field, "none"),
      Frame("object", "H0STCNT0", "9999", "SUBSCRIBE ERROR", "none") }

\* Lines 340-380: None when a field does not convert
parse_realtime_data(frame) ==
    IF frame.output = "malformed" THEN <<>>
    ELSE <<OnData(frame.tr_id, "AAPL")>>

\* Lines 304-338: the callbacks _handle_message invokes
handle_message(frame) ==
    IF frame.json = "value" THEN <<>>
    ELSE IF frame.tr_id = "PINGPONG" THEN <<>>
    ELSE IF frame.rsp_cd # "0000"
         THEN <<OnError(IF frame.rsp_msg = Absent_field THEN "Unknown error"
                        ELSE frame.rsp_msg)>>
    ELSE IF frame.tr_id \in {"H0STCNT0", "H0STCNI0"}
         THEN parse_realtime_data(frame)
    ELSE <<>>

\* Lines 283-302: the callbacks of one frame
frame_callbacks(frame) ==
    IF frame.json = "undecodable" THEN <<OnError("Expecting value")>>
    ELSE handle_message(frame)

\* Lines 319-321
is_pong(frame) == frame.json = "object" /\ frame.tr_id = "PINGPONG"

SpinMessage == "cannot call recv while another coroutine is already waiting"

\* Receive loop l got a frame: lines 280-302, then the loop's condition and
\* the next recv() on whatever socket _websocket refers to by now
ReceiveFrame(l, frame) ==
    /\ UNCHANGED notFeed
    /\ ~Hung
    /\ received' = frame
    /\ receive_loop[l].pc = "recv"
    /\ socket[receive_loop[l].on].state = "open"
    /\ last_ping_time' = IF is_pong(frame) THEN now ELSE last_ping_time
    /\ LET rec == receive_loop[l]
           taken == \E o \in Sockets : /\ o # l
                                       /\ receive_loop[o].pc = "recv"
                                       /\ receive_loop[o].on = websocket
       IN IF ~running \/ websocket = None
          THEN /\ receive_loop' = [receive_loop EXCEPT ![l] =
                                     [rec EXCEPT !.pc = "ended", !.on = None]]
               /\ callbacks' = frame_callbacks(frame)
               /\ UNCHANGED connected
          ELSE IF taken
               THEN /\ receive_loop' = [receive_loop EXCEPT ![l] =
                                          [rec EXCEPT !.pc = "spin", !.on = websocket]]
                    /\ callbacks' = Append(frame_callbacks(frame), OnError(SpinMessage))
                    /\ UNCHANGED connected
               ELSE IF socket[websocket].state = "closed"
                    THEN /\ receive_loop' = [receive_loop EXCEPT ![l] =
                                               closure_seen(rec)]
                         /\ connected' = FALSE
                         /\ callbacks' = frame_callbacks(frame)
                    ELSE /\ receive_loop' = [receive_loop EXCEPT ![l] =
                                               [rec EXCEPT !.on = websocket]]
                         /\ callbacks' = frame_callbacks(frame)
                         /\ UNCHANGED connected
    /\ UNCHANGED <<websocket, running, subscriptions, subscription_lock,
                   subscription_waiters, ping_task, socket, ping_loop, user,
                   opened, feedcalls>>

----------------------------------------------------------------------------
(* The heartbeat loop *)

\* One round of heartbeat loop p, lines 384-399: the sleep is over and the
\* ping is sent on the socket _websocket refers to, or the send raises
Ping(p) ==
    /\ UNCHANGED notFeed
    /\ ~Hung
    /\ received' = NoFrame
    /\ ping_loop[p].pc = "sleep"
    /\ ping_loop' = [ping_loop EXCEPT ![p] =
                       IF send_raises(websocket)
                       THEN [@ EXCEPT !.pc = "ended"]
                       ELSE [@ EXCEPT !.on = websocket]]
    /\ callbacks' = <<>>
    /\ UNCHANGED <<websocket, connected, running, subscriptions,
                   subscription_lock, subscription_waiters, ping_task,
                   last_ping_time, socket, receive_loop, user, opened,
                   feedcalls>>

----------------------------------------------------------------------------
(* The client after construction: lines 61-98 *)

FeedInit ==
    /\ websocket = None
    /\ connected = FALSE
    /\ running = FALSE
    /\ subscriptions = {}
    /\ subscription_lock = Unlocked
    /\ subscription_waiters = <<>>
    /\ ping_task = None
    /\ last_ping_time = None
    /\ socket = [s \in Sockets |-> NoSocket]
    /\ receive_loop = [s \in Sockets |-> NoLoop]
    /\ ping_loop = [s \in Sockets |-> NoPing]
    /\ user = [u \in Users |-> NoUser]
    /\ opened = 0
    /\ feedcalls = 0
    /\ callbacks = <<>>
    /\ received = NoFrame

FeedNext ==
    \/ \E u \in Users : Connect(u)
    \/ \E u \in Users, ok \in BOOLEAN : ConnectAnswer(u, ok)
    \/ \E u \in Users : Disconnect(u)
    \/ \E u \in Users : DisconnectEnd(u)
    \/ \E u \in Users, op \in {"subscribe", "unsubscribe"}, symbol \in Symbols,
          types \in DataTypeLists : Subscribe(u, op, symbol, types)
    \/ \E u \in Users : UserWake(u)
    \/ \E u \in Users : UserSent(u)
    \/ \E s \in Sockets : SocketCloses(s)
    \/ \E l \in Sockets, ok \in BOOLEAN :
          \E todo \in Orderings(IF ok THEN subscriptions ELSE {}) :
             ReconnectAnswer(l, ok, todo)
    \/ \E l \in Sockets : ReplayWake(l)
    \/ \E l \in Sockets : ReplaySent(l)
    \/ \E l \in Sockets, frame \in Frames : ReceiveFrame(l, frame)
    \/ \E p \in Sockets : Ping(p)

----------------------------------------------------------------------------
Init == AuthInit /\ SignInit /\ OrderInit /\ FeedInit

Next == AuthNext

Spec == Init /\ [][Next]_vars

\* The signer alone, in a process that has no token manager
SignerInit == Init /\ file = [env \in Envs |-> Absent]

SpecSign == SignerInit /\ [][SignNext]_vars

\* The order gateway, the token manager it uses and one more user of that
\* manager
GatewayInit == Init /\ file["sandbox"] \in {Absent, Persisted(600)}

SpecOrder == GatewayInit /\ [][OrderNext]_vars

SpecQuery == GatewayInit /\ [][QueryNext]_vars

\* The token string the broker issues to a credential set for its n-th
\* request, and the credential set a token was issued to
token_for(key, n) == key * 10 + n
IssuedTo(token) == token.access_token \div 10

\* The broker's answers to the issuance request of call c
BrokerResponses(c) ==
    {TransportFailure,
     Http(200, [access_token |-> token_for(app_key(call[c].m), call[c].request),
                token_type |-> "Bearer"])}

\* Two managers with different credential sets in one environment, on a host
\* whose cache directory is empty at first
SameEnv == {"m1", "m2"}

SharedNext ==
    \/ \E m \in SameEnv : Construct(m)
    \/ \E c \in Callers, m \in SameEnv, force \in BOOLEAN :
          GetAccessToken(c, m, force)
    \/ \E c \in Callers : Wake(c)
    \/ \E c \in Callers :
          \E response \in BrokerResponses(c) : TokenAnswer(c, response, "saved")
    \/ Tick

\* A sandbox manager and a live manager with one credential set, on a host
\* whose cache directory is empty at first
BothEnvs == {"m1", "m3"}

ModesNext ==
    \/ \E m \in BothEnvs : Construct(m)
    \/ \E c \in Callers, m \in BothEnvs, force \in BOOLEAN :
          GetAccessToken(c, m, force)
    \/ \E c \in Callers : Wake(c)
    \/ \E c \in Callers, saving \in SaveOutcomes :
          \E response \in BrokerResponses(c) : TokenAnswer(c, response, saving)
    \/ Tick

\* The expiry durations of the issuance responses explored: missing, zero,
\* negative and positive expires_in
ExpiryResponses(c) ==
    {Http(200, [access_token |-> call[c].request, token_type |-> "Bearer"])}
    \cup {Http(200, [access_token |-> call[c].request, token_type |-> "Bearer",
                     expires_in |-> e]) : e \in {0, -300, 600}}

ExpiryNext ==
    \/ \E m \in Managers : Construct(m)
    \/ \E c \in Callers, m \in Managers, force \in BOOLEAN :
          GetAccessToken(c, m, force)
    \/ \E c \in Callers : Wake(c)
    \/ \E c \in Callers, saving \in SaveOutcomes :
          \E response \in ExpiryResponses(c) : TokenAnswer(c, response, saving)
    \/ Tick

\* A sandbox gateway and a live gateway, each with its token manager
VenuesNext ==
    \/ \E m \in BothEnvs : Construct(m)
    \/ \E c \in OrderTasks, m \in BothEnvs, args \in OrderArgs :
            PlaceOrder(c, m, args[1], args[2], args[3])
    \/ \E c \in OrderTasks, m \in BothEnvs : CancelOrder(c, m)
    \/ \E c \in Callers : Retry(c)
    \/ \E c \in Callers :
         \E response \in GatewayTokenResponses(call[c].request) :
            OrderTokenAnswer(c, response, "saved")
    \/ \E c \in Callers, response \in OrderResponses : OrderAnswer(c, response)

SharedInit == Init /\ file = [env \in Envs |-> Absent]

SpecShared == SharedInit /\ [][SharedNext]_vars

SpecModes == SharedInit /\ [][ModesNext]_vars

SpecExpiry == SharedInit /\ [][ExpiryNext]_vars

SpecVenues == SharedInit /\ [][VenuesNext]_vars

\* The realtime client alone
ClientInit == Init /\ file = [env \in Envs |-> Absent]

SpecFeed == ClientInit /\ [][FeedNext]_vars

\* The realtime client while the server sends no frame and no heartbeat is due
ControlNext ==
    \/ \E u \in Users : Connect(u)
    \/ \E u \in Users, ok \in BOOLEAN : ConnectAnswer(u, ok)
    \/ \E u \in Users : Disconnect(u)
    \/ \E u \in Users : DisconnectEnd(u)
    \/ \E u \in Users, op \in {"subscribe", "unsubscribe"}, symbol \in Symbols,
          types \in DataTypeLists : Subscribe(u, op, symbol, types)
    \/ \E u \in Users : UserWake(u)
    \/ \E u \in Users : UserSent(u)
    \/ \E s \in Sockets : SocketCloses(s)
    \/ \E l \in Sockets, ok \in BOOLEAN :
          \E todo \in Orderings(IF ok THEN subscriptions ELSE {}) :
             ReconnectAnswer(l, ok, todo)
    \/ \E l \in Sockets : ReplayWake(l)
    \/ \E l \in Sockets : ReplaySent(l)

SpecControl == ClientInit /\ [][ControlNext]_vars

----------------------------------------------------------------------------
(* Properties of the token manager *)

\* A token is valid at time t: t < expires_at - 5min
ValidAt(token, t) == token.kind = "token" /\ t < token.expires_at - 300

\* The moment the broker issued a token
IssuedAt(token) == token.expires_at - token.expires_in

DoneGet(c) == call[c].pc = "done" /\ call[c].op = "get"

\* c and d are finished get_access_token(force_refresh=False) calls on one
\* manager that were in flight together and both arrived while no valid token
\* was cached
ConcurrentGets(c, d) ==
    /\ c # d
    /\ DoneGet(c) /\ DoneGet(d)
    /\ call[c].m = call[d].m
    /\ ~call[c].force /\ ~call[d].force
    /\ call[c].novalid /\ call[d].novalid
    /\ d \in call[c].overlap

LooksAtCache(c) ==
    /\ call'[c].op = "get" /\ ~call'[c].force
    /\ call'[c].pc \in {"done", "posting"}
    /\ \/ call[c].pc = "waiting"
       \/ call'[c].n = calls' /\ calls' # calls

\* What the first two sentences of C2 say of that step
CacheRule(c) ==
    LET m == call'[c].m
    IN IF ValidAt(current_token[m], now)
       THEN /\ call'[c].pc = "done"
            /\ call'[c].result = current_token[m]
            /\ call'[c].posts = 0
            /\ issued' = issued
       ELSE /\ call'[c].pc = "posting"
            /\ call'[c].posts = 1
            /\ issued' = issued + 1

\* In this step c calls ensure_token() right after its get_access_token()
\* returned a token, on the same manager, and no other caller is queued on the
\* lock
EnsuresRightAfter(c) ==
    /\ last = c
    /\ call'[c].n = calls' /\ calls' # calls
    /\ call'[c].op = "get" /\ ~call'[c].force
    /\ call'[c].m = call[c].m
    /\ call'[c].pc # "waiting"

\* C2: get_access_token(force_refresh=False) returns the cached
\* token and sends nothing when a token is cached with now < expires_at - 5min,
\* and sends exactly one request otherwise; ensure_token() called right after
\* a successful get_access_token() returns the same token.
C2_CachedOrOnePost ==
    [][\A c \in Callers :
          /\ LooksAtCache(c) => CacheRule(c)
          /\ call'[c].posts <= 1
          /\ EnsuresRightAfter(c) =>
                /\ call'[c].pc = "done"
                /\ call'[c].result = call[c].result]_vars

\* C3: a request answered with the rate-limit code EGW00133 is the call's only
\* request, and the call fails with an error that differs from the error of
\* every call that failed otherwise (transport failure, HTTP error without the
\* code, invalid token response).
C3_RateLimitDistinct ==
    \A c \in Callers :
        (DoneGet(c) /\ call[c].answer = "rate_limit") =>
            /\ call[c].posts = 1
            /\ call[c].result.kind = "error"
            /\ \A d \in Callers :
                  ( /\ DoneGet(d)
                    /\ call[d].answer \in {"transport", "http_error", "invalid"} )
                  => /\ call[d].result.kind = "error"
                     /\ call[d].result # call[c].result

\* C3: one call was rejected with the rate-limit code, another got a response
\* without access_token
C3_Witness ==
    \E c, d \in Callers :
        /\ DoneGet(c) /\ call[c].answer = "rate_limit"
        /\ DoneGet(d) /\ call[d].answer = "invalid"

\* C4 as claimed: a call whose request failed at the network layer has made 3
\* attempts when it surfaces the failure.
C4_ThreeAttempts ==
    \A c \in Callers :
        (DoneGet(c) /\ call[c].answer = "transport") => call[c].posts = 3

\* C5 as claimed: when revoke_token() for the currently cached token completes,
\* the in-memory token and the persisted entry of the manager's environment
\* are empty, whatever the outcome of the request; it returns false when the
\* request failed.
C5_RevokeClears ==
    [][\A c \in Callers :
          (call[c].pc = "revoking" /\ call'[c].pc = "done" /\ call[c].current) =>
              LET m == call[c].m
              IN /\ current_token'[m] = NoToken
                 /\ file'[env_suffix(use_sandbox(m))] = Absent
                 /\ call'[c].answer = "failed" =>
                       call'[c].result = Returned(FALSE)]_vars

\* The entry is a well-formed record of a token
WellFormed(entry) ==
    /\ entry.kind = "json"
    /\ {"access_token", "token_type", "expires_in", "expires_at"}
          \subseteq DOMAIN entry.data

\* C6: constructing a manager sends no request; a well-formed, unexpired
\* (5-minute buffer) entry of its environment becomes its cached token and
\* stays; a malformed or expired entry is deleted and the manager starts with
\* no token.
C6_LoadOnConstruct ==
    [][\A m \in Managers :
          last' = m =>
             LET env == env_suffix(use_sandbox(m))
                 entry == file[env]
             IN /\ issued' = issued
                /\ \A e \in Envs \ {env} : file'[e] = file[e]
                /\ IF WellFormed(entry) /\ now < entry.data.expires_at[2] - 300
                   THEN /\ file'[env] = entry
                        /\ current_token'[m].kind = "token"
                        /\ current_token'[m].access_token = entry.data.access_token
                        /\ current_token'[m].expires_at = entry.data.expires_at[2]
                   ELSE /\ file'[env] = Absent
                        /\ current_token'[m] = NoToken]_vars

\* C6: a manager was just constructed and has adopted the persisted token
C6_Witness ==
    \E m \in Managers :
        /\ last = m
        /\ current_token[m].kind = "token"
        /\ file[env_suffix(use_sandbox(m))] = Json(to_dict(current_token[m]))

----------------------------------------------------------------------------
(* Properties of the signer *)

RequiredBy(op) ==
    IF op = "order" THEN {"CANO", "ACNT_PRDT_CD", "PDNO"}
    ELSE {"CANO", "ACNT_PRDT_CD", "ORGN_ODNO"}

\* C8: sign_order, sign_cancel and sign_modify raise a validation error naming
\* a missing field, and compute no signature, whenever the payload lacks a
\* required field; they return a signature only for a payload that has every
\* required field.  (The signer has no request to send: its steps leave the
\* token manager and its request counter alone.)
C8_ValidatesBeforeSigning ==
    signing.op \in {"order", "cancel", "modify"} =>
        LET missing == RequiredBy(signing.op) \ keys(signing.data)
        IN IF missing # {}
           THEN /\ signing.result.kind = "error"
                /\ signing.result.cls = "ValueError"
                /\ signing.result.msg[3] \in missing
                /\ ~signing.hashed
                /\ issued = 0
           ELSE /\ signing.result.kind = "hashkey"
                /\ signing.hashed

\* C8: sign_order was handed a payload without PDNO and raised
C8_Witness ==
    /\ signing.op = "order"
    /\ {"CANO", "ACNT_PRDT_CD"} \subseteq keys(signing.data)
    /\ signing.result.kind = "error"
    /\ signing.result.msg[3] = "PDNO"

----------------------------------------------------------------------------
(* Properties of the order gateway *)

\* The failures of an attempt that the retry policy is about
TransportKinds == {"transport", "http_5xx"}

C10_RetryOnlyTransport ==
    \A c \in Callers :
       LET o == order[c]
       IN /\ o.submitted <= 3
          /\ \A i \in 1..Len(o.history) :
                i < o.attempt => o.history[i].kind \in TransportKinds

\* C11: cancel_order follows the retry policy of place_order: a transport-level
\* failure (connection error or HTTP 5xx) is surfaced to the caller only after
\* the cancel request was submitted 3 times, and a rejection by the broker
\* ends the call at once.
C11_CancelRetries ==
    \A c \in Callers :
       LET o == order[c]
       IN (o.op = "cancel" /\ o.pc = "done" /\ o.history # <<>>)
          => LET ended == o.history[Len(o.history)]
             IN /\ ended.kind \in TransportKinds => o.submitted = 3
                /\ ended.kind = "rejected" => o.result.kind = "order_response"

\* C12: one call of place_order never makes the broker accept more than one
\* order, whatever transport failures, lost responses and retries occur.
C12_AtMostOneOrder ==
    \A c \in Callers : order[c].op = "place" => order[c].accepted <= 1

\* The attempt that ended the call of c
Ended(c) == order[c].history[Len(order[c].history)]

\* An OrderResponse was returned to c
Responded(c) == order[c].pc = "done" /\ order[c].result.kind = "order_response"

\* C13 as stated: the OrderResponse returned by place_order or cancel_order
\* has is_success = true iff the broker's rt_cd is "0", and its error_message
\* is empty exactly when is_success is true.
C13_SuccessIffSentinel ==
    \A c \in Callers :
       Responded(c)
       => /\ is_success(order[c].result) <=> Ended(c).kind = "accepted"
          /\ error_message(order[c].result) = "" <=> is_success(order[c].result)

\* C13, amended: the OrderResponse returned by place_order or cancel_order has
\* is_success = true iff the broker's rt_cd is "0"; its error_message is empty
\* when is_success is true and is the broker's msg1 otherwise, which is empty
\* too when the broker rejected without a message.
C13_SuccessIffZero ==
    \A c \in Callers :
       Responded(c)
       => /\ is_success(order[c].result) <=> Ended(c).kind = "accepted"
          /\ order[c].result.rt_cd = "0" <=> Ended(c).kind = "accepted"
          /\ error_message(order[c].result) =
                IF Ended(c).kind = "accepted" THEN "" ELSE Ended(c).msg1

\* cancel_order got an HTTP 200 reply with rt_cd = "1" and a message
C13_Witness ==
    \E c \in Callers :
       /\ Responded(c)
       /\ order[c].op = "cancel"
       /\ Ended(c).kind = "rejected"
       /\ ~is_success(order[c].result)
       /\ error_message(order[c].result) = "insufficient funds"

\* A row that Position(...) can be built from
WellFormedRow(item) ==
    /\ {"ovrs_pdno", "ovrs_item_name", "ovrs_cblc_qty", "pchs_avg_pric"}
          \subseteq DOMAIN item
    /\ item.ovrs_cblc_qty \in {"0", "10"}
    /\ item.pchs_avg_pric = "1.5"

Held(item) == WellFormedRow(item) /\ item.ovrs_cblc_qty = "10"

\* The symbols of the rows that are well-formed with a quantity above 0
RECURSIVE HeldSymbols(_)
HeldSymbols(rows) ==
    IF rows = <<>> THEN <<>>
    ELSE IF Held(Head(rows))
         THEN <<Head(rows).ovrs_pdno>> \o HeldSymbols(Tail(rows))
         ELSE HeldSymbols(Tail(rows))

\* C19: answered with a list of rows, get_positions succeeds and returns one
\* Position per well-formed row with quantity > 0, in the order of the rows:
\* rows with quantity 0 are left out and malformed rows are skipped.
C19_BadRowsSkipped ==
    \A c \in Callers :
       LET o == order[c]
       IN (o.op = "positions" /\ o.pc = "done" /\ o.history # <<>>
           /\ Ended(c).kind = "answered")
          => /\ o.result.kind = "positions"
             /\ Len(o.result.list) = Len(HeldSymbols(o.rows))
             /\ \A i \in 1..Len(o.result.list) :
                   o.result.list[i].symbol = HeldSymbols(o.rows)[i]

----------------------------------------------------------------------------
(* The token lock *)

\* C20: every step of get_access_token or revoke_token that writes a manager's
\* cached token is taken while that manager's token lock is held (the load in
\* the constructor, before any task can use the manager, is not such a step).
C20_WritesUnderLock ==
    [][\A m \in Managers :
         (current_token'[m] # current_token[m] /\ last' # m)
         => token_lock[m] # Free]_vars

----------------------------------------------------------------------------
(* The realtime client *)

\* The step is the call of subscribe or unsubscribe by task u
CallsSubscribe(u) ==
    /\ feedcalls' = feedcalls + 1
    /\ user'[u].op \in {"subscribe", "unsubscribe"}

\* C14: subscribe and unsubscribe called while the client is not connected
\* return False at once, send no message on any socket and leave the
\* subscription set as it is.
C14_NotConnectedRefused ==
    [][\A u \in Users :
         (CallsSubscribe(u) /\ ~connected)
         => /\ user'[u].pc = "done"
            /\ user'[u].result = Returned(FALSE)
            /\ socket' = socket
            /\ subscriptions' = subscriptions]_vars

\* A call was refused while the socket the client refers to was open
C14_Witness ==
    \E u \in Users :
       /\ user[u].pc = "done"
       /\ user[u].op \in {"subscribe", "unsubscribe"}
       /\ user[u].result = Returned(FALSE)
       /\ ~connected
       /\ websocket # None
       /\ socket[websocket].state = "open"
       /\ socket[websocket].log = <<>>

\* The subscribe messages among the first n messages sent on socket s by the
\* replay of a reconnect procedure
Replayed(s, n) ==
    {j \in 1..n : /\ socket[s].log[j].tr_type = "1"
                  /\ socket[s].log[j].by \in {Loop(l) : l \in Sockets}}

\* C15: on a socket opened by a reconnect attempt, the subscriptions that were
\* active at the closure are sent again, one subscribe message for each and
\* for nothing else, before any subscribe of a caller is sent on that socket.
C15_ReplayBeforeCallers ==
    \A s \in Sockets :
       \A i \in 1..Len(socket[s].log) :
          (socket[s].log[i].by \in {User(u) : u \in Users}
             /\ socket[s].log[i].tr_type = "1")
          => /\ {socket[s].log[j].key : j \in Replayed(s, i - 1)} = socket[s].replay
             /\ Cardinality(Replayed(s, i - 1)) = Cardinality(socket[s].replay)

\* A reconnect procedure gave up, and no task has called connect() since or
\* is in connect()
Failed ==
    /\ \E l \in Sockets : receive_loop[l].pc = "failed"
    /\ \A u \in Users : user[u].pc # "connecting"

\* The step is a connect attempt of a reconnect procedure
AttemptMade ==
    \E l \in Sockets : receive_loop[l].pc = "sleep"
                        /\ receive_loop'[l] # receive_loop[l]

\* The step starts a receive loop and a heartbeat loop
LoopsStarted == opened' # opened

\* C16: a reconnect procedure gives up after 5 failed attempts, invoking the
\* error callback once, with the terminal message; from then on the client is
\* not connected and, until a task calls connect(), no connect attempt is
\* made and no background loop is started.
C16_TerminalFailure ==
    [][/\ \A l \in Sockets :
            (receive_loop[l].pc # "failed" /\ receive_loop'[l].pc = "failed")
            => /\ receive_loop'[l].attempt = max_retries
               /\ callbacks' = <<OnError(TerminalMessage)>>
               /\ ~connected'
       /\ Failed => /\ ~connected
                    /\ (\E u \in Users : user'[u].pc = "connecting")
                       \/ (~AttemptMade /\ ~LoopsStarted)]_vars

\* Task u called disconnect() while the client was connected and waits for
\* the socket to close
Disconnecting(u) == user[u].pc = "closing" /\ user[u].connected

\* C17: when a disconnect() called while the client was connected returns, no
\* receive loop and no heartbeat loop is running, the socket is closed, the
\* subscription set is empty and the client is disconnected; and the closure
\* of that socket starts no reconnect procedure.
C17_DisconnectStopsAll ==
    [][\A u \in Users :
         /\ (Disconnecting(u) /\ user'[u].pc = "done")
            => /\ \A l \in Sockets :
                    receive_loop'[l].pc \in {"none", "ended", "failed"}
               /\ \A p \in Sockets :
                    ping_loop'[p].pc \in {"none", "ended", "cancelled"}
               /\ socket'[user[u].on].state = "closed"
               /\ subscriptions' = {}
               /\ ~connected'
               /\ websocket' = None
         /\ (Disconnecting(u) /\ socket[user[u].on].state = "closing"
                              /\ socket'[user[u].on].state = "closed")
            => \A l \in Sockets :
                  receive_loop'[l].pc = "sleep" => receive_loop[l].pc = "sleep"]_vars

\* The frame is not JSON, or it carries none of the message types the
\* client knows
Unknown(frame) ==
    \/ frame.json \in {"undecodable", "value"}
    \/ frame.json = "object"
          /\ frame.tr_id \notin {"PINGPONG", "H0STCNT0", "H0STCNI0"}

\* C18: a frame that is not JSON or of unknown type, received while the
\* client runs, is dropped: no data is delivered, every receive loop stays
\* as it was, waiting for the next frame, and the connection state and the
\* subscription set do not change.
C18_BadFrameDropped ==
    [][(received' # NoFrame /\ Unknown(received') /\ running /\ websocket # None)
       => /\ \A i \in 1..Len(callbacks') : callbacks'[i].callback # "on_data"
          /\ receive_loop' = receive_loop
          /\ <<websocket, connected, running, socket>>'
               = <<websocket, connected, running, socket>>
          /\ subscriptions' = subscriptions]_vars

\* The latest call of task u is a disconnect() that was made while a
\* reconnect procedure was under way, and it has returned
Disconnected(u) ==
    user[u].pc = "done" /\ user[u].op = "disconnect" /\ user[u].reconnecting

\* C21: after a disconnect() called during the reconnect procedure has
\* returned, the client stays disconnected, and no connect attempt is made
\* and no background loop is started until a task calls connect().
C21_DisconnectStopsReconnect ==
    [][\A u \in Users :
         Disconnected(u)
         => /\ ~connected
            /\ (\E v \in Users : user'[v].pc = "connecting")
               \/ (~AttemptMade /\ ~LoopsStarted)]_vars

\* The replay of receive loop l has sent a subscribe message and has more
\* subscriptions to send
InReplay(l) ==
    /\ receive_loop[l].pc \in {"lockwait", "sending"}
    /\ \E s \in Sockets : \E i \in 1..Len(socket[s].log) :
          socket[s].log[i].by = Loop(l)

\* The step is the end of a send of task u's subscribe or unsubscribe that
\* put a message on a socket or changed the subscription set
CallerActs(u) ==
    /\ user[u].pc = "sending"
    /\ user'[u] # user[u]
    /\ socket' # socket \/ subscriptions' # subscriptions

\* C23: between the first and the last subscribe message of a replay, no
\* subscribe or unsubscribe call of a caller sends a control message or
\* changes the subscription set.
C23_ReplayExclusive ==
    [][(\E l \in Sockets : InReplay(l))
       => \A u \in Users : ~CallerActs(u)]_vars

\* The latest call of task u is an unsubscribe that returned True
Unsubscribed(u) ==
    /\ user[u].pc = "done"
    /\ user[u].op = "unsubscribe"
    /\ user[u].result = Returned(TRUE)

\* The entries that call was about
Dropped(u) ==
    {subscription_key(user[u].types[i], user[u].symbol) :
       i \in 1..Len(user[u].types)}

\* The step sends a subscribe message for entry k on some socket
Resubscribes(k) ==
    \E s \in Sockets :
       /\ Len(socket'[s].log) > Len(socket[s].log)
       /\ socket'[s].log[Len(socket'[s].log)].tr_type = "1"
       /\ socket'[s].log[Len(socket'[s].log)].key = k

\* C24: after an unsubscribe has returned True and until the caller's next
\* call, none of its entries is in the subscription set and no subscribe
\* message is sent for any of them.
C24_UnsubscribeSticks ==
    [][\A u \in Users :
         Unsubscribed(u)
         => \A k \in Dropped(u) : k \notin subscriptions /\ ~Resubscribes(k)]_vars

\* The receive loops that wait for a frame or run the reconnect procedure,
\* and the heartbeat loops that have not ended
ReceiveLoops == {l \in Sockets : receive_loop[l].pc \in {"recv", "sleep", "spin"}}
PingLoops == {p \in Sockets : ping_loop[p].pc = "sleep"}

\* C25: at most one receive loop and at most one heartbeat loop are running.
C25_OneLoopEach ==
    /\ Cardinality(ReceiveLoops) <= 1
    /\ Cardinality(PingLoops) <= 1

\* C26: when a receive loop that saw its socket close makes a reconnect
\* attempt, the heartbeat loop started with that socket has stopped; and the
\* heartbeat loop of a closed socket sends no ping on another socket.
C26_HeartbeatStopped ==
    [][/\ \A l \in Sockets :
            (receive_loop[l].pc = "sleep" /\ receive_loop'[l] # receive_loop[l])
            => ping_loop[l].pc # "sleep"
       /\ \A p \in Sockets :
            socket[p].state = "closed" => ping_loop'[p].on = p]_vars

\* No subscribe, unsubscribe or replay is in progress
Quiet ==
    /\ \A u \in Users : user[u].pc \notin {"lockwait", "sending"}
    /\ \A l \in Sockets : receive_loop[l].pc \notin {"lockwait", "sending"}

\* A subscribe message for entry k was sent on socket s
SentOn(s, k) ==
    \E i \in 1..Len(socket[s].log) :
       socket[s].log[i].tr_type = "1" /\ socket[s].log[i].key = k

\* C27: when the client is connected, its socket is open and no subscribe,
\* unsubscribe or replay is in progress, a subscribe message was sent on that
\* socket for every entry of the subscription set.
C27_SetMatchesSocket ==
    (connected /\ websocket # None /\ socket[websocket].state = "open" /\ Quiet)
    => \A k \in subscriptions : SentOn(websocket, k)

\* The frame is a quote or trade payload with a well-formed body.output
DataFrame(frame) ==
    /\ frame.json = "object"
    /\ frame.tr_id \in {"H0STCNT0", "H0STCNI0"}
    /\ frame.output = "quote"

\* C29: a quote or trade frame that carries body.output is delivered by one
\* invocation of the data callback and none of the error callback; a
\* heartbeat acknowledgment invokes no callback.
C29_DataDelivered ==
    [][/\ (received' # NoFrame /\ DataFrame(received'))
            => /\ Len(callbacks') = 1
               /\ callbacks'[1].callback = "on_data"
               /\ callbacks'[1].arg = <<received'.tr_id, "AAPL">>
       /\ (received' # NoFrame /\ is_pong(received'))
            => callbacks' = <<>>]_vars

\* The call of c needed a new token: it asked for one (force_refresh=True) or
\* it arrived while no valid token was cached
NeedsNew(c) == call[c].force \/ call[c].novalid

\* c and d are finished get_access_token calls on one manager that were in
\* flight together and both needed a new token
ConcurrentNeeds(c, d) ==
    /\ c # d
    /\ DoneGet(c) /\ DoneGet(d)
    /\ call[c].m = call[d].m
    /\ NeedsNew(c) /\ NeedsNew(d)
    /\ d \in call[c].overlap

\* C28: concurrent get_access_token calls that all need a new token, calls
\* with force_refresh=True included, share one issuance: of two such calls
\* only one sends a request, and the other receives the token that request
\* produced.
C28_ShareOneIssuance ==
    \A c, d \in Callers :
        ConcurrentNeeds(c, d) =>
            /\ call[c].posts + call[d].posts = 1
            /\ call[c].result = call[d].result

\* In this step the request of c's get_access_token call fails and the call
\* ends with an error
FailsNow(c) ==
    /\ call[c].op = "get" /\ call[c].pc = "posting"
    /\ call'[c].pc = "done" /\ call'[c].result.kind = "error"

\* In this step c's get_access_token call starts to wait for the lock or
\* sends its request
GoesOn(c) ==
    /\ call'[c].op = "get"
    /\ call'[c].pc \in {"waiting", "posting"}
    /\ call'[c].pc # call[c].pc

\* C30: a get_access_token call that fails (transport error, HTTP error, rate
\* limit, response without access_token) changes neither the in-memory cached
\* token nor the persisted cache entry in any of its steps, and the step in
\* which it fails releases the lock it held.
C30_FailureLeavesCache ==
    [][\A c \in Callers :
          /\ GoesOn(c) => (current_token' = current_token /\ file' = file)
          /\ FailsNow(c) =>
                /\ call'[c].answer \in {"transport", "http_error",
                                        "rate_limit", "invalid"}
                /\ current_token' = current_token
                /\ file' = file
                /\ token_lock[call[c].m] = c
                /\ token_lock'[call[c].m] = Free]_vars

\* C30: a forced refresh failed while a token was cached and persisted; the
\* token is still cached, the entry still persisted, and a later call took
\* the lock and returned the cached token
C30_Witness ==
    \E c, d \in Callers :
        /\ DoneGet(c) /\ call[c].force /\ call[c].result.kind = "error"
        /\ DoneGet(d) /\ call[d].n > call[c].n /\ call[d].m = call[c].m
        /\ call[d].posts = 0
        /\ call[d].result = current_token[call[c].m]
        /\ current_token[call[c].m].kind = "token"
        /\ file[env_suffix(use_sandbox(call[c].m))]
             = Json(to_dict(current_token[call[c].m]))

\* In this step the issuance request that ensure_token sent for c's
\* place_order call is rejected with the rate-limit code
RateLimitedNow(c) ==
    /\ order[c].op = "place" /\ order[c].pc = "token"
    /\ call[c].pc = "posting"
    /\ call'[c].pc = "done" /\ call'[c].answer = "rate_limit"

\* C22: when the token issuance is rejected with the rate-limit code during a
\* place_order call, the call ends there, so that it sends no further
\* issuance request, and the caller gets the rate-limit error, which differs
\* from every other error.
C22_RateLimitEndsOrder ==
    [][\A c \in Callers :
          RateLimitedNow(c) =>
             /\ order'[c].pc = "done"
             /\ order'[c].result = Raised("ValueError", "KIS API rate limit")]_vars

\* In this step c's get_access_token call returns a token
ReturnsToken(c) ==
    /\ call'[c].op = "get" /\ call'[c].pc = "done"
    /\ call[c].pc # "done" \/ call'[c].n # call[c].n
    /\ call'[c].result.kind = "token"

\* C31: every token get_access_token returns is valid at the moment of
\* return (now < expires_at - 5min), whatever expiry duration the issuance
\* response reported.
C31_ReturnedTokenValid ==
    [][\A c \in Callers :
          ReturnsToken(c) => ValidAt(call'[c].result, now')]_vars

\* Two dicts that map the same keys to the same values
SameMapping(d1, d2) ==
    {d1[i] : i \in 1..Len(d1)} = {d2[i] : i \in 1..Len(d2)}

\* C32: two payloads that map the same keys to the same values yield the same
\* signature under the same secret, whatever the order in which their keys
\* were inserted.
C32_KeyOrderIrrelevant ==
    signing.hashed =>
        \A data \in Payloads :
            SameMapping(data, signing.data) =>
                generate_hashkey(signing.secret, data) = signing.result.hashkey

\* C33: a token that a manager adopts at startup or returns from
\* get_access_token was issued to that manager's own credential set: of two
\* managers with different credential sets in one environment, neither ever
\* holds or returns a token issued to the other.
C33_OwnTokenOnly ==
    /\ \A m \in SameEnv :
          current_token[m].kind = "token" =>
              IssuedTo(current_token[m]) = app_key(m)
    /\ \A c \in Callers :
          (DoneGet(c) /\ call[c].result.kind = "token") =>
              IssuedTo(call[c].result) = app_key(call[c].m)

\* In this step the issuance request of c's get_access_token call succeeds
IssuesNow(c) ==
    /\ call[c].op = "get" /\ call[c].pc = "posting"
    /\ call'[c].pc = "done" /\ call'[c].result.kind = "token"

ReturnsFalse(u) ==
    /\ user'[u].pc = "done"
    /\ user'[u].op \in {"subscribe", "unsubscribe"}
    /\ user'[u].result = Returned(FALSE)
    /\ user[u].pc \in {"lockwait", "sending"} \/ feedcalls' # feedcalls

\* C35: a subscribe or unsubscribe call that returns False has not changed
\* the subscription set, also when it covers several data types and the send
\* of a later one fails after the send of an earlier one succeeded.
C35_FalseChangesNothing ==
    [][\A u \in Users :
          ReturnsFalse(u) =>
             /\ ~user[u].changed
             /\ subscriptions' = subscriptions]_vars

\* C36: every AccessToken a manager holds, returns or persists has
\* expires_at > issued-at: the token that an issuance at time now returns,
\* caches and persists expires after now, for every issuance response, a
\* missing, zero or negative expires_in included.
C36_ExpiresAfterIssuance ==
    [][\A c \in Callers :
          IssuesNow(c) =>
             LET m == call[c].m
                 entry == file'[env_suffix(use_sandbox(m))]
             IN /\ call'[c].result.expires_at > now
                /\ current_token'[m].expires_at > now
                /\ entry # file[env_suffix(use_sandbox(m))]
                      => entry.data.expires_at[2] > now]_vars

Sides == {"BUY", "SELL"}

\* The transaction ids of the orders and cancellations of one mode
IdsOf(sandbox) == {tr_id(side, sandbox) : side \in Sides} \cup {tr_id_cancel(sandbox)}

\* C37: the transaction id place_order sends is determined by the side and
\* the gateway's sandbox flag, differs from the id of every other pair of
\* side and flag, and is never an id of the other mode; the id cancel_order
\* sends is determined by the flag and is never an id of the other mode.
C37_TransactionIds ==
    \A c \in Callers :
        LET o == order[c]
            sandbox == use_sandbox(o.m)
        IN (o.request.kind = "request" /\ o.op \in {"place", "cancel"}) =>
              /\ o.request.tr_id \notin IdsOf(~sandbox)
              /\ o.op = "place" =>
                    /\ o.request.tr_id = tr_id(o.side, sandbox)
                    /\ \A side \in Sides, flag \in BOOLEAN :
                          (side # o.side \/ flag # sandbox)
                             => o.request.tr_id # tr_id(side, flag)
              /\ o.op = "cancel" =>
                    /\ o.request.tr_id = tr_id_cancel(sandbox)
                    /\ o.request.tr_id # tr_id_cancel(~sandbox)

\* C37: the sell order of a sandbox gateway is in flight with the sandbox
\* sell id
C37_Witness ==
    \E c \in Callers :
        /\ order[c].pc = "ordering" /\ order[c].op = "place"
        /\ order[c].side = "SELL" /\ use_sandbox(order[c].m)
        /\ order[c].request.tr_id = "VTTT1001U"

\* The value a request body has for a key
ValueOf(data, key) ==
    LET i == CHOOSE i \in 1..Len(data) : data[i][1] = key IN data[i][2]

\* C38: in the body place_order submits, the unit price is "0" whenever the
\* order type is market ("01"), whatever price argument was passed, and the
\* given price whenever the order type is limit ("00").
C38_UnitPrice ==
    \A c \in Callers :
        LET o == order[c]
        IN (o.op = "place" /\ o.request.kind = "request") =>
              LET unit_price == ValueOf(o.request.json, "OVRS_ORD_UNPR")
              IN /\ o.order_type = "01" => unit_price = "0"
                 /\ (o.order_type = "00" /\ o.price # None)
                       => unit_price = str(o.price)

====
